---- MODULE Spec2Model ----
(***************************************************************************)
(* Model of the UDP tracker backend: the datagram listener (udpService.js),*)
(* the store call (locationController.js / locationModel.js), the          *)
(* real-time registry and broadcast hub (socketService.js) and the startup *)
(* sequence with the periodic reaper (server.js).                          *)
(*                                                                         *)
(* The consumer side is the useSocket hook (hooks/useSocket.js) on top of   *)
(* socket.io-client: its connection state, its subscriptions, its          *)
(* keepalive.                                                              *)
(*                                                                         *)
(* Node runs every handler to completion on one thread, so one action is   *)
(* one handler run, or the part of an async handler between two awaits.    *)
(* Times are in minutes.  Latitudes, longitudes and timestamps are         *)
(* integers standing for the JavaScript numbers.                           *)
(***************************************************************************)
EXTENDS Integers, Sequences, FiniteSets, TLC

\* ------------------------------------------------------------------ bounds
MaxSessions == 3        \* real-time connections accepted in one run
MaxDatagrams == 2       \* datagrams received in one run
MaxTime == 60           \* the clock stops advancing here
TickMinutes == 15       \* minutes the clock advances by in one step
MaxAttached == 2        \* consumer handlers attached to the socket for one event name
ClientTickSeconds == 10 \* seconds the client's timers advance by in one step
MaxRowsCreated == 1     \* rows written by direct calls of LocationModel.create
MaxQueries == 1         \* getAll queries pending at one time

\* ------------------------------------------------------- program constants
DefaultMaxInactiveMinutes == 30   \* cleanupInactiveConnections(maxInactiveMinutes = 30)
reconnectionAttempts == 5         \* SOCKET_OPTIONS.reconnectionAttempts
PingIntervalSeconds == 30         \* setInterval(..., 30000)

Ids == 1..MaxSessions
Datagrams == 1..MaxDatagrams

\* --------------------------------------------------------------- JS values
\* A value on the wire is absent, null, a number or a string; reading a
\* property of the decoded object gives undefined for an absent one.
Absent == [t |-> "absent", v |-> 0]
Undefined == [t |-> "undefined", v |-> 0]
Null == [t |-> "null", v |-> 0]
Num(n) == [t |-> "number", v |-> n]
Str(n) == [t |-> "string", v |-> n]

BaseLat == 37
BaseLon == -122
BaseTime == 17

NonNumbers == {Absent, Null, Str(1)}
BadLatValues == NonNumbers \cup {Num(-91), Num(91), Num(95)}
BadLonValues == NonNumbers \cup {Num(-181), Num(181)}
BadTimeValues == NonNumbers

\* A datagram's text: not JSON at all ("garbage"), the JSON texts null and 5,
\* or a JSON object with the three required fields and the four optional ones
\* (acc, alt, spd, prov), each present or not.
Msg(kind, la, lo, ti, o) ==
    [kind |-> kind, lat |-> la, lon |-> lo, time |-> ti,
     acc |-> o.acc, alt |-> o.alt, spd |-> o.spd, prov |-> o.prov]
NoOptionals == [acc |-> Absent, alt |-> Absent, spd |-> Absent, prov |-> Absent]
ObjectMsg(la, lo, ti) == Msg("object", la, lo, ti, NoOptionals)
GarbageMsg == Msg("garbage", Absent, Absent, Absent, NoOptionals)
NullMsg == Msg("null", Absent, Absent, Absent, NoOptionals)
NumberMsg == Msg("number", Absent, Absent, Absent, NoOptionals)
NoMsg == Msg("none", Absent, Absent, Absent, NoOptionals)

\* The datagrams sent: the base report and one on the edges of both ranges,
\* the base report with one required field wrong, one report with several
\* fields wrong, and the three texts that are no object.
ValidMessages ==
    {ObjectMsg(Num(BaseLat), Num(BaseLon), Num(BaseTime)),
     ObjectMsg(Num(90), Num(-180), Num(BaseTime))}
Messages ==
    ValidMessages
    \cup {ObjectMsg(la, Num(BaseLon), Num(BaseTime)) : la \in BadLatValues}
    \cup {ObjectMsg(Num(BaseLat), lo, Num(BaseTime)) : lo \in BadLonValues}
    \cup {ObjectMsg(Num(BaseLat), Num(BaseLon), ti) : ti \in BadTimeValues}
    \cup {ObjectMsg(Num(95), Absent, Str(1))}
    \cup {GarbageMsg, NullMsg, NumberMsg}

\* The reports handed to validateLocationData and LocationModel.create when
\* they are called on their own: every required field absent, null, a string,
\* zero, inside, on the edge of and outside its range, with optional fields
\* absent, zero or as sendTestData sends them.
LatValues == NonNumbers \cup {Num(-91), Num(-90), Num(0), Num(BaseLat), Num(90), Num(91)}
LonValues == NonNumbers \cup {Num(-181), Num(-180), Num(BaseLon), Num(180), Num(181)}
TimeValues == NonNumbers \cup {Num(0), Num(BaseTime)}
Optionals ==
    [acc : {Absent, Num(0), Num(5)}, alt : {Absent, Num(5)},
     spd : {Absent, Num(0), Num(3)}, prov : {Absent, Str(1)}]
TestDataOptionals == [acc |-> Num(5), alt |-> Num(5), spd |-> Num(0), prov |-> Str(1)]
Reports ==
    {Msg("object", la, lo, ti, o) :
        la \in LatValues, lo \in LonValues, ti \in TimeValues,
        o \in {NoOptionals, TestDataOptionals}}
    \cup {NullMsg, NumberMsg}
ValidReports ==
    {Msg("object", m.lat, m.lon, ti, o) :
        m \in ValidMessages, ti \in {Num(0), Num(BaseTime)}, o \in Optionals}

\* JSON.parse(msg.toString()): throws SyntaxError on text that is not JSON.
JSONparse(msg) ==
    IF msg.kind = "garbage"
    THEN [threw |-> "SyntaxError", value |-> NoMsg]
    ELSE [threw |-> "none", value |-> msg]

\* data[field]: TypeError on null, undefined on a primitive or an absent field.
Get(data, field) ==
    IF data.kind = "object"
    THEN (IF data[field].t = "absent" THEN Undefined ELSE data[field])
    ELSE Undefined

IsMissingUndefinedOnly(x) == x.t = "undefined"

\* data[field] === undefined || data[field] === null
IsMissing(x) == x.t = "undefined" \/ x.t = "null"

RequiredFields == <<"lat", "lon", "time">>

\* The first required field that is undefined or null, 0 when none is.
FirstMissing(data) ==
    IF \E i \in 1..Len(RequiredFields) : IsMissing(Get(data, RequiredFields[i]))
    THEN CHOOSE i \in 1..Len(RequiredFields) :
            /\ IsMissing(Get(data, RequiredFields[i]))
            /\ \A j \in 1..(i - 1) : ~IsMissing(Get(data, RequiredFields[j]))
    ELSE 0

RangeOkNoUpperLat(data) ==
    /\ ~(Get(data, "lat").v < -90)
    /\ ~(Get(data, "lon").v < -180 \/ Get(data, "lon").v > 180)

\* The range checks of validateLocationData.
RangeOk(data) ==
    /\ ~(Get(data, "lat").v < -90 \/ Get(data, "lat").v > 90)
    /\ ~(Get(data, "lon").v < -180 \/ Get(data, "lon").v > 180)

\* validateLocationData(data): what it returns or throws, and its warning.
validateLocationData(data) ==
    IF data.kind = "null"
    THEN [threw |-> "TypeError", ret |-> FALSE, warn |-> "none"]
    ELSE IF FirstMissing(data) # 0
    THEN [threw |-> "none", ret |-> FALSE,
          warn |-> "missing " \o RequiredFields[FirstMissing(data)]]
    ELSE IF Get(data, "lat").t # "number" \/ Get(data, "lon").t # "number"
    THEN [threw |-> "none", ret |-> FALSE, warn |-> "lat/lon type"]
    ELSE IF Get(data, "time").t # "number"
    THEN [threw |-> "none", ret |-> FALSE, warn |-> "time type"]
    ELSE IF ~RangeOk(data)
    THEN [threw |-> "none", ret |-> FALSE, warn |-> "range"]
    ELSE [threw |-> "none", ret |-> TRUE, warn |-> "none"]

CatchesSyntaxErrorOnly(err) == err = "SyntaxError"

\* The message handler's catch clause catches whatever the try block throws.
Catches(err) == TRUE

\* What the synchronous part of the message handler does with a datagram:
\* "store" (createLocation is called), "invalid" (the validator said no and the
\* handler returned), the name of the error its catch clause caught, or "raise"
\* (an exception leaves the handler).
HandlerVerdict(msg) ==
    LET parsed == JSONparse(msg)
        valid == validateLocationData(parsed.value)
    IN  IF parsed.threw # "none"
        THEN (IF Catches(parsed.threw) THEN parsed.threw ELSE "raise")
        ELSE IF valid.threw # "none"
        THEN (IF Catches(valid.threw) THEN valid.threw ELSE "raise")
        ELSE IF ~valid.ret THEN "invalid"
        ELSE "store"

\* ------------------------------------------------------------------- state
VARIABLES
    pc,                \* initializeServices: "testConnection", "udpStart", "running", "exited"
    startPromise,      \* the promise of UDPService.start(): "none", "pending", "resolved", "rejected"
    udpState,          \* the datagram socket: "unbound", "listening", "closed"
    httpListening,     \* server.listen(PORT) has been called
    reaperScheduled,   \* the setInterval of cleanupInactiveConnections is set
    connectedClients,  \* the registry Map, in insertion order: <<[id, connectedAt, lastActivity]>>
    sockets,           \* per session identity: "new", "open", "torn" (both in io.sockets.sockets), "closed"
    now,               \* the clock (new Date()), in minutes
    dg,                \* per datagram: the message handler's position and its locationData
    table,             \* the rows of location_data
    udpLog,            \* what the message handlers did, in order
    sent,              \* per session, the events the latest step emitted to it, in order
    unhandled,         \* an exception left a message handler (an unhandled rejection)
    lastReap,          \* the last cleanupInactiveConnections run, while nothing touched the registry since
    lastOp,            \* the handler that ran in the latest step, and on what
    queries,           \* per session, the getAll queries its request-initial-data handlers await
    \* ---- the consumer: one useSocket hook
    mounted,           \* the component using the hook is mounted
    socketRef,         \* socketRef.current: "socket" or "null"
    readyState,        \* the Manager's _readyState: "opening", "open", "closed"
    reconnecting,      \* the Manager's _reconnecting
    reconnectTimer,    \* the Manager's reconnection timer is set and has not fired
    attempts,          \* the Manager's backoff.attempts
    active,            \* the Socket is subscribed to its Manager (socket.active)
    connected,         \* socket.connected
    isConnected,       \* React state
    connectionStatus,  \* React state: "disconnected", "connecting", "connected", "error"
    error,             \* React state: "null" or the message
    pingTimers,        \* the keepalive intervals that are set: seconds since each was set or fired
    effectIsConnected, \* the isConnected the keepalive effect last ran with
    sincePing,         \* seconds since the last ping was sent, up to PingIntervalSeconds
    emitted,           \* the events the latest step sent to the server, in order
    exhausted,         \* reconnect_failed happened and reconnect() was not called since
    closedByConsumer,  \* disconnect() was called and reconnect() was not called since
    failedSinceDrop,   \* connection attempts that failed since the transport last dropped
                       \* while connected, -1 when it did not or the consumer stepped in
    listenersRef,      \* listenersRef.current: per event name the tracked handler, 0 for none
    attached,          \* per event name, the consumer handlers attached to the socket, in order
    unsubs             \* the unsubscribe functions on() has returned: <<eventName, handler>>

serverVars == <<pc, startPromise, udpState, httpListening, reaperScheduled, connectedClients,
                sockets, now, dg, table, udpLog, sent, unhandled, lastReap, queries>>
managerVars == <<readyState, reconnecting, reconnectTimer, attempts, active, connected>>
uiVars == <<isConnected, connectionStatus, error>>
pingVars == <<pingTimers, effectIsConnected, sincePing>>
subscriptionVars == <<listenersRef, attached, unsubs>>
historyVars == <<exhausted, closedByConsumer, failedSinceDrop>>
clientVars == <<mounted, socketRef, managerVars, uiVars, pingVars, emitted, historyVars,
                subscriptionVars>>

vars == <<serverVars, lastOp, clientVars>>

initVars == <<pc, startPromise, udpState, httpListening, reaperScheduled>>
udpVars == <<dg, table, udpLog, unhandled>>

NoRow == [id |-> 0, latitude |-> 0, longitude |-> 0, timestamp_value |-> 0, created_at |-> 0]
\* lastOp: a handler or call, its argument, and what it returned when the
\* caller reads that (FALSE otherwise).
OpRet(name, arg, ret) == [name |-> name, arg |-> arg, ret |-> ret]
Op(name, arg) == OpRet(name, arg, FALSE)
NoSent == [id \in Ids |-> <<>>]
NoReap == [ran |-> FALSE, at |-> 0, max |-> 0, cleaned |-> 0, second |-> FALSE, first |-> 0]

EventNames == {"location-update", "client-count-update"}
Handlers == {1, 2}

\* The hook after its first render and effects: createSocket() has run, io()
\* made a Manager that is opening (autoConnect) and a Socket subscribed to it.
ClientInit ==
    /\ mounted = TRUE
    /\ socketRef = "socket"
    /\ readyState = "opening"
    /\ reconnecting = FALSE
    /\ reconnectTimer = FALSE
    /\ attempts = 0
    /\ active = TRUE
    /\ connected = FALSE
    /\ isConnected = FALSE
    /\ connectionStatus = "disconnected"
    /\ error = "null"
    /\ pingTimers = <<>>
    /\ effectIsConnected = FALSE
    /\ sincePing = PingIntervalSeconds
    /\ emitted = <<>>
    /\ exhausted = FALSE
    /\ closedByConsumer = FALSE
    /\ failedSinceDrop = -1
    /\ listenersRef = [e \in EventNames |-> 0]
    /\ attached = [e \in EventNames |-> <<>>]
    /\ unsubs = {}

Init ==
    /\ pc = "testConnection"
    /\ startPromise = "none"
    /\ udpState = "unbound"
    /\ httpListening = FALSE
    /\ reaperScheduled = FALSE
    /\ connectedClients = <<>>
    /\ sockets = [id \in Ids |-> "new"]
    /\ now = 0
    /\ dg = [d \in Datagrams |-> [phase |-> "none", data |-> NoMsg]]
    /\ table = <<>>
    /\ udpLog = <<>>
    /\ sent = NoSent
    /\ unhandled = FALSE
    /\ lastReap = NoReap
    /\ lastOp = Op("none", 0)
    /\ queries = [id \in Ids |-> 0]
    /\ ClientInit

\* ------------------------------------------------------------ the registry
MapIds(m) == {m[i].id : i \in DOMAIN m}
MapHas(m, k) == k \in MapIds(m)
MapSize(m) == Len(m)
MapClear(m, k) == <<>>
MapDelete(m, k) == SelectSeq(m, LAMBDA e : e.id # k)
MapSetSkips(m, k, info) == m

\* Map.set: replaces the value of an existing key in place, appends a new key.
MapSet(m, k, info) ==
    LET entry == [id |-> k, connectedAt |-> info.connectedAt, lastActivity |-> info.lastActivity]
    IN  IF MapHas(m, k)
        THEN [i \in DOMAIN m |-> IF m[i].id = k THEN entry ELSE m[i]]
        ELSE Append(m, entry)

OpenSockets(socks) == {id \in Ids : socks[id] = "open"}

InNamespaceOpenOnly(socks) == {id \in Ids : socks[id] = "open"}

\* io.sockets.sockets: the sessions the server holds as connected.  A "torn"
\* one has lost its transport on the peer's side and the server has yet to
\* notice (engine.io notices at the latest when its heartbeat times out).
InNamespace(socks) == {id \in Ids : socks[id] \in {"open", "torn"}}

\* ---------------------------------------------------------------- emitting
Event(name, clientId, data, total) ==
    [ev |-> name, clientId |-> clientId, data |-> data, totalClients |-> total]

\* What reaches the peers of the packets `out`: a packet written to a session
\* whose transport is gone is lost there.
Delivered(out, socks) ==
    [id \in Ids |-> IF socks[id] = "open" THEN out[id] ELSE <<>>]

RECURSIVE IoEmitAbortsOnFailure(_, _, _)
IoEmitAbortsOnFailure(inb, socks, e) ==
    LET torn == {id \in Ids : socks[id] = "torn"}
        stop == IF torn = {} THEN MaxSessions + 1
                ELSE CHOOSE id \in torn : \A j \in torn : id <= j
    IN  [id \in Ids |-> IF id \in InNamespace(socks) /\ id <= stop
                        THEN Append(inb[id], e) ELSE inb[id]]

\* io.emit(event): the adapter writes the packet to the connection of every
\* socket of the namespace, one after the other; the write to a connection
\* whose transport is gone is dropped by socket.io and throws nothing.
IoEmit(inb, socks, e) ==
    [id \in Ids |-> IF id \in InNamespace(socks) THEN Append(inb[id], e) ELSE inb[id]]

\* io.to(room).emit(event): to the sockets of the namespace that are in the
\* room; every socket is alone in the room named by its own identity.
IoToEmit(inb, socks, room, e) ==
    [id \in Ids |-> IF id \in InNamespace(socks) /\ id = room
                    THEN Append(inb[id], e) ELSE inb[id]]

\* socket.emit(event): to that socket, nothing once it is disconnected.
SocketEmit(inb, socks, id, e) ==
    [inb EXCEPT ![id] = IF id \in InNamespace(socks) THEN Append(@, e) ELSE @]

\* ----------------------------------------------------------------- startup
\* await testConnection() succeeds; new SocketService, new UDPService, start().
TestConnectionOk ==
    /\ pc = "testConnection"
    /\ lastOp' = Op("testConnection", 0)
    /\ UNCHANGED <<clientVars, queries>>
    /\ pc' = "udpStart"
    /\ startPromise' = "pending"
    /\ UNCHANGED <<udpState, httpListening, reaperScheduled, connectedClients, sockets,
                   now, dg, table, udpLog, sent, unhandled, lastReap>>

\* await testConnection() throws: the catch of initializeServices exits.
TestConnectionFail ==
    /\ pc = "testConnection"
    /\ lastOp' = Op("testConnection", 0)
    /\ UNCHANGED <<clientVars, queries>>
    /\ pc' = "exited"
    /\ UNCHANGED <<startPromise, udpState, httpListening, reaperScheduled, connectedClients,
                   sockets, now, dg, table, udpLog, sent, unhandled, lastReap>>

\* bind succeeds: 'listening', the bind callback resolves start(), and
\* initializeServices goes on to server.listen and setInterval.
BindOk ==
    /\ pc = "udpStart"
    /\ lastOp' = Op("listening", 0)
    /\ UNCHANGED <<clientVars, queries>>
    /\ udpState = "unbound"
    /\ udpState' = "listening"
    /\ startPromise' = "resolved"
    /\ httpListening' = TRUE
    /\ reaperScheduled' = TRUE
    /\ pc' = "running"
    /\ UNCHANGED <<connectedClients, sockets, now, dg, table, udpLog, sent, unhandled,
                   lastReap>>

BindFailProceeds ==
    /\ pc = "udpStart"
    /\ lastOp' = Op("bindError", 0)
    /\ UNCHANGED <<clientVars, queries>>
    /\ udpState = "unbound"
    /\ udpState' = "closed"
    /\ startPromise' = "resolved"
    /\ httpListening' = TRUE
    /\ reaperScheduled' = TRUE
    /\ pc' = "running"
    /\ UNCHANGED <<connectedClients, sockets, now, dg, table, udpLog, sent, unhandled,
                   lastReap>>

\* bind fails: dgram emits 'error' and never calls the bind callback, so the
\* error handler closes the socket and start() stays pending.
BindFail ==
    /\ pc = "udpStart"
    /\ lastOp' = Op("bindError", 0)
    /\ UNCHANGED <<clientVars, queries>>
    /\ udpState = "unbound"
    /\ udpState' = "closed"
    /\ UNCHANGED <<pc, startPromise, httpListening, reaperScheduled, connectedClients,
                   sockets, now, dg, table, udpLog, sent, unhandled, lastReap>>

UdpSocketErrorKeepsListening ==
    /\ pc = "running"
    /\ lastOp' = Op("udpError", 0)
    /\ UNCHANGED <<clientVars, queries>>
    /\ udpState = "listening"
    /\ sent' = NoSent
    /\ UNCHANGED <<pc, startPromise, udpState, httpListening, reaperScheduled,
                   connectedClients, sockets, now, dg, table, udpLog, unhandled, lastReap>>

\* the socket reports an error while listening: the error handler closes it.
UdpSocketError ==
    /\ pc = "running"
    /\ lastOp' = Op("udpError", 0)
    /\ UNCHANGED <<clientVars, queries>>
    /\ udpState = "listening"
    /\ udpState' = "closed"
    /\ sent' = NoSent
    /\ UNCHANGED <<pc, startPromise, httpListening, reaperScheduled, connectedClients,
                   sockets, now, dg, table, udpLog, unhandled, lastReap>>

\* ------------------------------------------------------ datagram listener
LogEntry(name, d, row) == [ev |-> name, d |-> d, row |-> row]

\* The datagram the next 'message' event carries: they are numbered as they arrive.
NextDatagram == CHOOSE d \in Datagrams :
    dg[d].phase = "none" /\ \A e \in Datagrams : e < d => dg[e].phase # "none"

Storing == {d \in Datagrams : dg[d].phase = "storing"}

\* The message handler up to its first await.
HandleMessage(msg) ==
    LET d == NextDatagram
        verdict == HandlerVerdict(msg)
        received == Append(udpLog, LogEntry("message", d, 0))
    IN  /\ pc = "running"
        /\ udpState = "listening"
        /\ \E e \in Datagrams : dg[e].phase = "none"
        /\ CASE verdict = "store" ->
                  /\ dg' = [dg EXCEPT ![d] = [phase |-> "storing", data |-> JSONparse(msg).value]]
                  /\ udpLog' = Append(received, LogEntry("createLocation", d, 0))
                  /\ UNCHANGED <<pc, unhandled>>
             [] verdict \in {"invalid", "SyntaxError", "TypeError"} ->
                  \* console.warn and return, or console.error in the catch
                  /\ dg' = [dg EXCEPT ![d] = [phase |-> "discarded", data |-> NoMsg]]
                  /\ udpLog' = Append(received, LogEntry(verdict, d, 0))
                  /\ UNCHANGED <<pc, unhandled>>
             [] verdict = "raise" ->
                  \* the async handler's promise rejects: unhandledRejection exits
                  /\ dg' = [dg EXCEPT ![d] = [phase |-> "raised", data |-> NoMsg]]
                  /\ udpLog' = received
                  /\ unhandled' = TRUE
                  /\ pc' = "exited"
        /\ sent' = NoSent
        /\ lastOp' = Op("message", d)
        /\ UNCHANGED <<clientVars, queries>>
        /\ UNCHANGED <<startPromise, udpState, httpListening, reaperScheduled,
                       connectedClients, sockets, now, table, lastReap>>

ReceiveSerial(msg) == Storing = {} /\ HandleMessage(msg)

\* 'message': the listener hands every datagram to the handler as it arrives,
\* whatever earlier handlers are still waiting for.
Receive(msg) == HandleMessage(msg)

\* validateLocationData(data) called on its own: lastOp.ret is what it returned
\* or threw; it writes nothing but its warning.
ValidateCall(data) ==
    /\ lastOp' = OpRet("validateLocationData", data, validateLocationData(data))
    /\ UNCHANGED <<serverVars, clientVars>>

\* x || null: null for undefined, null, 0 and the empty string (Str(0)).
OrNull(x) ==
    IF x.t \in {"undefined", "null"} \/ x = Num(0) \/ x = Str(0) THEN Null ELSE x

\* LocationModel.create: the row INSERT ... RETURNING * gives back, with the
\* seven values of the query as the model wrote them.
LocationModelCreate(rows, data, t) ==
    [id |-> Len(rows) + 1,
     latitude |-> Get(data, "lat").v,
     longitude |-> Get(data, "lon").v,
     timestamp_value |-> Get(data, "time").v,
     accuracy |-> OrNull(Get(data, "acc")),
     altitude |-> OrNull(Get(data, "alt")),
     speed |-> OrNull(Get(data, "spd")),
     provider |-> OrNull(Get(data, "prov")),
     created_at |-> t]

\* LocationModel.create(locationData) called on its own, on the empty table.
CreateCall(data) ==
    LET row == LocationModelCreate(table, data, now)
    IN  /\ Len(table) < MaxRowsCreated
        /\ table' = Append(table, row)
        /\ sent' = NoSent
        /\ lastOp' = OpRet("create", data, row)
        /\ UNCHANGED <<clientVars, queries>>
        /\ UNCHANGED <<initVars, connectedClients, sockets, now, dg, udpLog, unhandled,
                       lastReap>>

\* frontendData: the five fields of the saved row that are broadcast.
frontendData(savedLocation) ==
    [id |-> savedLocation.id, latitude |-> savedLocation.latitude,
     longitude |-> savedLocation.longitude,
     timestamp_value |-> savedLocation.timestamp_value,
     created_at |-> savedLocation.created_at]

RECURSIVE EmitTimes(_, _, _, _)
EmitTimes(n, out, socks, e) ==
    IF n = 0 THEN out ELSE EmitTimes(n - 1, IoEmit(out, socks, e), socks, e)

broadcastNewLocationPerClient(socks, reg, locationData) ==
    EmitTimes(MapSize(reg), NoSent, socks,
              Event("location-update", 0, locationData, MapSize(reg)))

\* broadcastNewLocation(locationData): what io.emit('location-update') sends.
broadcastNewLocation(socks, reg, locationData) ==
    IoEmit(NoSent, socks, Event("location-update", 0, locationData, MapSize(reg)))

\* createLocation resolves: the handler goes on to broadcast the saved row.
StoreResolved(d) ==
    LET savedLocation == LocationModelCreate(table, dg[d].data, now)
    IN  /\ pc = "running"
        /\ dg[d].phase = "storing"
        /\ table' = Append(table, savedLocation)
        /\ sent' = broadcastNewLocation(sockets, connectedClients, frontendData(savedLocation))
        /\ udpLog' = Append(udpLog, LogEntry("broadcast", d, savedLocation.id))
        /\ dg' = [dg EXCEPT ![d] = [phase |-> "done", data |-> NoMsg]]
        /\ lastOp' = Op("storeResolved", d)
        /\ UNCHANGED <<clientVars, queries>>
        /\ UNCHANGED <<pc, startPromise, udpState, httpListening, reaperScheduled,
                       connectedClients, sockets, now, unhandled, lastReap>>

StoreRejectedRetries(d) ==
    /\ pc = "running"
    /\ dg[d].phase = "storing"
    /\ lastOp' = Op("storeRejected", d)
    /\ UNCHANGED <<clientVars, queries>>
    /\ udpLog' = udpLog \o <<LogEntry("storeError", d, 0),
                             LogEntry("createLocation", d, 0)>>
    /\ sent' = NoSent
    /\ UNCHANGED <<pc, startPromise, udpState, httpListening, reaperScheduled,
                   connectedClients, sockets, now, dg, table, unhandled, lastReap>>

\* createLocation rejects (it rethrows the pool's error): the handler's catch logs.
StoreRejected(d) ==
    /\ pc = "running"
    /\ dg[d].phase = "storing"
    /\ lastOp' = Op("storeRejected", d)
    /\ UNCHANGED <<clientVars, queries>>
    /\ dg' = [dg EXCEPT ![d] = [phase |-> "failed", data |-> NoMsg]]
    /\ udpLog' = Append(udpLog, LogEntry("storeError", d, 0))
    /\ sent' = NoSent
    /\ UNCHANGED <<pc, startPromise, udpState, httpListening, reaperScheduled,
                   connectedClients, sockets, now, table, unhandled, lastReap>>

\* ------------------------------------------------------ targeted delivery
sendToClientUnchecked(socks, clientId, e) ==
    [ret |-> TRUE, out |-> IoToEmit(NoSent, socks, clientId, e)]

\* sendToClient(clientId, eventName, data): what it returns and what it sends.
sendToClient(socks, clientId, e) ==
    IF clientId \in InNamespace(socks)
    THEN [ret |-> TRUE, out |-> IoToEmit(NoSent, socks, clientId, e)]
    ELSE [ret |-> FALSE, out |-> NoSent]

\* a caller inside the server sends an event of its own to one identity,
\* which may be one that never connected or one that has gone.
SendToClient(clientId) ==
    LET r == sendToClient(sockets, clientId, Event("message", clientId, NoRow, 0))
    IN  /\ pc = "running"
        /\ sent' = r.out
        /\ lastOp' = OpRet("sendToClient", clientId, r.ret)
        /\ UNCHANGED <<clientVars, queries>>
        /\ UNCHANGED <<initVars, connectedClients, sockets, now, udpVars, lastReap>>

\* -------------------------------------------------------- real-time sessions
\* socket.io gives every connection an identity of its own.
NextId == CHOOSE id \in Ids :
    sockets[id] = "new" /\ \A j \in Ids : j < id => sockets[j] # "new"

ConnectCountsFirst ==
    LET id == NextId
        socks == [sockets EXCEPT ![id] = "open"]
        reg == MapSet(connectedClients, id, [connectedAt |-> now, lastActivity |-> now])
        count == IoEmit(NoSent, socks, Event("client-count-update", 0, NoRow, MapSize(reg)))
    IN  /\ pc = "running"
        /\ httpListening
        /\ \E j \in Ids : sockets[j] = "new"
        /\ sockets' = socks
        /\ connectedClients' = reg
        /\ sent' = SocketEmit(count, socks, id,
                              Event("connection-info", id, NoRow, MapSize(reg)))
        /\ lastReap' = NoReap
        /\ lastOp' = Op("connection", id)
        /\ UNCHANGED <<clientVars, queries>>
        /\ UNCHANGED <<initVars, now, udpVars>>

\* io.on('connection'): register, connection-info to the socket, count to all.
Connect ==
    LET id == NextId
        socks == [sockets EXCEPT ![id] = "open"]
        reg == MapSet(connectedClients, id, [connectedAt |-> now, lastActivity |-> now])
        info == SocketEmit(NoSent, socks, id,
                           Event("connection-info", id, NoRow, MapSize(reg)))
    IN  /\ pc = "running"
        /\ httpListening
        /\ \E j \in Ids : sockets[j] = "new"
        /\ sockets' = socks
        /\ connectedClients' = reg
        /\ sent' = IoEmit(info, socks, Event("client-count-update", 0, NoRow, MapSize(reg)))
        /\ lastReap' = NoReap
        /\ lastOp' = Op("connection", id)
        /\ UNCHANGED <<clientVars, queries>>
        /\ UNCHANGED <<initVars, now, udpVars>>

DisconnectHandlerCountsBefore(reg, socks, inb, id) ==
    [reg |-> MapDelete(reg, id),
     inb |-> IoEmit(inb, socks, Event("client-count-update", 0, NoRow, MapSize(reg)))]

\* socket.on('disconnect'), run once the socket has left io.sockets.sockets:
\* the registry and the events sent after it.
DisconnectHandler(reg, socks, inb, id) ==
    LET after == MapDelete(reg, id)
    IN  [reg |-> after,
         inb |-> IoEmit(inb, socks, Event("client-count-update", 0, NoRow, MapSize(after)))]

\* the peer's transport goes away and the server has not noticed yet.
TransportDrop(id) ==
    /\ pc = "running"
    /\ sockets[id] = "open"
    /\ sockets' = [sockets EXCEPT ![id] = "torn"]
    /\ sent' = NoSent
    /\ lastOp' = Op("transportDrop", id)
    /\ UNCHANGED <<clientVars, queries>>
    /\ UNCHANGED <<initVars, connectedClients, now, udpVars, lastReap>>

\* the peer closes the connection, or the server notices that the transport is
\* gone: engine.io closes a connection whose heartbeat got no answer within
\* pingInterval + pingTimeout, and socket.io then emits 'disconnect'.
Disconnect(id) ==
    LET socks == [sockets EXCEPT ![id] = "closed"]
        h == DisconnectHandler(connectedClients, socks, NoSent, id)
    IN  /\ pc = "running"
        /\ id \in InNamespace(sockets)
        /\ sockets' = socks
        /\ connectedClients' = h.reg
        /\ sent' = h.inb
        /\ lastReap' = NoReap
        /\ lastOp' = Op(IF sockets[id] = "torn" THEN "pingTimeout" ELSE "disconnect", id)
        /\ UNCHANGED <<clientVars, queries>>
        /\ UNCHANGED <<initVars, now, udpVars>>

TouchAppend(m, k, t) == Append(m, [id |-> k, connectedAt |-> t, lastActivity |-> t])

TouchEvery(m, k, t) == [i \in DOMAIN m |-> [m[i] EXCEPT !.lastActivity = t]]

\* connectedClients.get(id).lastActivity = new Date()
Touch(m, k, t) ==
    [i \in DOMAIN m |-> IF m[i].id = k THEN [m[i] EXCEPT !.lastActivity = t] ELSE m[i]]

PingRegistryIgnores(m, k, t) == m

PingRegistryUpsert(m, k, t) == MapSet(m, k, [connectedAt |-> t, lastActivity |-> t])

\* the registry after the ping handler: touched only if the session is in it.
PingRegistry(m, k, t) == IF MapHas(m, k) THEN Touch(m, k, t) ELSE m

\* socket.on('ping').  socket.io dispatches a received event on the next tick,
\* so a ping read from the wire can reach the handler after the disconnect
\* handler or the reaper removed the session.
Ping(id) ==
    /\ pc = "running"
    /\ sockets[id] # "new"
    /\ connectedClients' = PingRegistry(connectedClients, id, now)
    /\ sent' = SocketEmit(NoSent, sockets, id, Event("pong", 0, NoRow, 0))
    /\ lastReap' = NoReap
    /\ lastOp' = Op("ping", id)
    /\ UNCHANGED <<clientVars, queries>>
    /\ UNCHANGED <<initVars, sockets, now, udpVars>>

\* ---------------------------------------------------- requests of a session
RecentLimit == 10

RECURSIVE Reverse(_)
Reverse(seq) == IF seq = <<>> THEN <<>> ELSE Append(Reverse(Tail(seq)), Head(seq))

\* LocationModel.getAll(limit, offset): id, latitude, longitude, timestamp_value
\* and created_at of the newest rows (rows of one instant come newest first).
getAll(rows, limit, offset) ==
    LET newest == Reverse(rows)
        from == offset + 1
        to == IF offset + limit < Len(newest) THEN offset + limit ELSE Len(newest)
    IN  [i \in 1..(to - from + 1) |-> frontendData(newest[from + i - 1])]

PendingQueries == Cardinality({<<id, n>> \in Ids \X (1..MaxQueries) : n <= queries[id]})

\* socket.on('request-initial-data'), up to its await: the query is sent.
RequestInitialData(id) ==
    /\ pc = "running"
    /\ sockets[id] # "new"
    /\ PendingQueries < MaxQueries
    /\ queries' = [queries EXCEPT ![id] = @ + 1]
    /\ sent' = NoSent
    /\ lastOp' = Op("request-initial-data", id)
    /\ UNCHANGED clientVars
    /\ UNCHANGED <<initVars, connectedClients, sockets, now, udpVars, lastReap>>

InitialDataEmitToAll(inb, socks, id, e) == IoEmit(inb, socks, e)

\* the socket.emit('initial-data', ...) of the request-initial-data handler.
InitialDataEmit(inb, socks, id, e) == SocketEmit(inb, socks, id, e)

\* getAll resolves: initial-data with success true and the rows.
InitialDataResolved(id) ==
    LET recentData == getAll(table, RecentLimit, 0)
    IN  /\ pc = "running"
        /\ queries[id] > 0
        /\ queries' = [queries EXCEPT ![id] = @ - 1]
        /\ sent' = InitialDataEmit(NoSent, sockets, id,
                        Event("initial-data", id, [success |-> TRUE, data |-> recentData], 0))
        /\ lastOp' = Op("initialDataResolved", id)
        /\ UNCHANGED clientVars
        /\ UNCHANGED <<initVars, connectedClients, sockets, now, udpVars, lastReap>>

\* getAll rejects: the catch sends initial-data with success false and a text.
InitialDataRejected(id) ==
    /\ pc = "running"
    /\ queries[id] > 0
    /\ queries' = [queries EXCEPT ![id] = @ - 1]
    /\ sent' = InitialDataEmit(NoSent, sockets, id,
                    Event("initial-data", id,
                          [success |-> FALSE, error |-> "Error al obtener datos iniciales"], 0))
    /\ lastOp' = Op("initialDataRejected", id)
    /\ UNCHANGED clientVars
    /\ UNCHANGED <<initVars, connectedClients, sockets, now, udpVars, lastReap>>

\* connectedClients.get(id): undefined for an identity that is not registered.
MapGet(m, k) == IF MapHas(m, k) THEN m[CHOOSE i \in DOMAIN m : m[i].id = k] ELSE Undefined

RequestStatsTouches(id) ==
    /\ pc = "running"
    /\ sockets[id] # "new"
    /\ connectedClients' = PingRegistry(connectedClients, id, now)
    /\ sent' = SocketEmit(NoSent, sockets, id,
                    Event("stats-update", id, MapGet(connectedClients, id),
                          MapSize(connectedClients)))
    /\ lastOp' = Op("request-stats", id)
    /\ UNCHANGED <<clientVars, queries>>
    /\ UNCHANGED <<initVars, sockets, now, udpVars, lastReap>>

\* socket.on('request-stats'): stats-update to the socket.
RequestStats(id) ==
    /\ pc = "running"
    /\ sockets[id] # "new"
    /\ sent' = SocketEmit(NoSent, sockets, id,
                    Event("stats-update", id, MapGet(connectedClients, id),
                          MapSize(connectedClients)))
    /\ lastOp' = Op("request-stats", id)
    /\ UNCHANGED <<clientVars, queries>>
    /\ UNCHANGED <<initVars, connectedClients, sockets, now, udpVars, lastReap>>

\* broadcastNewLocation(locationData) called on its own.
BroadcastNewLocation ==
    /\ pc = "running"
    /\ sent' = broadcastNewLocation(sockets, connectedClients, NoRow)
    /\ lastOp' = Op("broadcastNewLocation", 0)
    /\ UNCHANGED <<clientVars, queries>>
    /\ UNCHANGED <<initVars, connectedClients, sockets, now, udpVars, lastReap>>

\* broadcastMessage(eventName, data): io.emit with the count.
BroadcastMessage ==
    /\ pc = "running"
    /\ sent' = IoEmit(NoSent, sockets, Event("message", 0, NoRow, MapSize(connectedClients)))
    /\ lastOp' = Op("broadcastMessage", 0)
    /\ UNCHANGED <<clientVars, queries>>
    /\ UNCHANGED <<initVars, connectedClients, sockets, now, udpVars, lastReap>>

\* getConnectionStats(): the count and a copy of every entry.
GetConnectionStats ==
    /\ pc = "running"
    /\ sent' = NoSent
    /\ lastOp' = OpRet("getConnectionStats", 0,
                       [totalClients |-> MapSize(connectedClients), clients |-> connectedClients])
    /\ UNCHANGED <<clientVars, queries>>
    /\ UNCHANGED <<initVars, connectedClients, sockets, now, udpVars, lastReap>>

\* time passes.
Tick ==
    /\ pc = "running"
    /\ now + TickMinutes <= MaxTime
    /\ now' = now + TickMinutes
    /\ sent' = NoSent
    /\ lastOp' = Op("tick", 0)
    /\ UNCHANGED <<clientVars, queries>>
    /\ UNCHANGED <<initVars, connectedClients, sockets, udpVars, lastReap>>

\* ------------------------------------------------------------- the reaper
IsInactiveGe(entry, t, max) == (t - entry.lastActivity) >= max

\* inactiveMinutes > maxInactiveMinutes
IsInactive(entry, t, max) == (t - entry.lastActivity) > max

RECURSIVE CleanupLoopSkip(_, _, _, _, _)
CleanupLoopSkip(entries, i, st, t, max) ==
    IF i > Len(entries) THEN st
    ELSE IF MapHas(st.reg, entries[i].id) /\ IsInactive(entries[i], t, max)
    THEN LET id == entries[i].id
             open == id \in InNamespace(st.socks)
             socks == IF open THEN [st.socks EXCEPT ![id] = "closed"] ELSE st.socks
             h == IF open THEN DisconnectHandler(st.reg, socks, st.inb, id)
                  ELSE [reg |-> st.reg, inb |-> st.inb]
         IN  CleanupLoopSkip(entries, i + 2,
                             [reg |-> MapDelete(h.reg, id), socks |-> socks, inb |-> h.inb,
                              cleaned |-> st.cleaned + 1], t, max)
    ELSE CleanupLoopSkip(entries, i + 1, st, t, max)

\* The for-of loop of cleanupInactiveConnections over connectedClients.entries(),
\* from the i-th entry of the Map as it was when the loop began: an entry deleted
\* before the iterator reaches it is not visited.  disconnect(true) runs the
\* session's disconnect handler before it returns.
RECURSIVE CleanupLoop(_, _, _, _, _)
CleanupLoop(entries, i, st, t, max) ==
    IF i > Len(entries) THEN st
    ELSE IF MapHas(st.reg, entries[i].id) /\ IsInactive(entries[i], t, max)
    THEN LET id == entries[i].id
             open == id \in InNamespace(st.socks)
             socks == IF open THEN [st.socks EXCEPT ![id] = "closed"] ELSE st.socks
             h == IF open THEN DisconnectHandler(st.reg, socks, st.inb, id)
                  ELSE [reg |-> st.reg, inb |-> st.inb]
         IN  CleanupLoop(entries, i + 1,
                         [reg |-> MapDelete(h.reg, id), socks |-> socks, inb |-> h.inb,
                          cleaned |-> st.cleaned + 1], t, max)
    ELSE CleanupLoop(entries, i + 1, st, t, max)

\* cleanupInactiveConnections(maxInactiveMinutes); lastReap.cleaned is what it returns.
\* The session whose peer stays connected and keeps its keepalive going.
Keeper == 1

\* One step of the clock for a server whose session Keeper has a peer that
\* emits 'ping' every PingIntervalSeconds: the period is shorter than the step,
\* so the last ping handled within the step refreshed the entry at most one
\* period before the new instant, and was answered with a pong.
KeepaliveTick ==
    LET t == now + TickMinutes
        lastPing == t - (PingIntervalSeconds \div 60)
    IN  /\ pc = "running"
        /\ t <= MaxTime
        /\ sockets[Keeper] = "open"
        /\ now' = t
        /\ connectedClients' = PingRegistry(connectedClients, Keeper, lastPing)
        /\ sent' = SocketEmit(NoSent, sockets, Keeper, Event("pong", 0, NoRow, 0))
        /\ lastReap' = NoReap
        /\ lastOp' = Op("keepaliveTick", Keeper)
        /\ UNCHANGED <<clientVars, queries>>
        /\ UNCHANGED <<initVars, sockets, udpVars>>

cleanupInactiveConnections(max) ==
    LET st == CleanupLoop(connectedClients, 1,
                          [reg |-> connectedClients, socks |-> sockets, inb |-> NoSent,
                           cleaned |-> 0], now, max)
        second == lastReap.ran /\ lastReap.at = now /\ lastReap.max = max
    IN  /\ pc = "running"
        /\ reaperScheduled
        /\ connectedClients' = st.reg
        /\ sockets' = st.socks
        /\ sent' = st.inb
        /\ lastReap' = [ran |-> TRUE, at |-> now, max |-> max, cleaned |-> st.cleaned,
                        second |-> second,
                        first |-> IF second THEN lastReap.cleaned ELSE 0]
        /\ lastOp' = Op("cleanup", max)
        /\ UNCHANGED <<clientVars, queries>>
        /\ UNCHANGED <<initVars, now, udpVars>>

\* setInterval(() => socketService.cleanupInactiveConnections(), 30 * 60 * 1000)
Reaper == cleanupInactiveConnections(DefaultMaxInactiveMinutes)

\* ------------------------------------------------- the consumer: useSocket
\* The React state the handlers write.
Ui == [isConnected |-> isConnected, connectionStatus |-> connectionStatus, error |-> error]

SetUi(ui) ==
    /\ isConnected' = ui.isConnected
    /\ connectionStatus' = ui.connectionStatus
    /\ error' = ui.error

\* The handlers createSocket attaches to the socket, on st = [ui, out]: the
\* React state and the events sent so far in this step.
OnConnect(st) ==
    [ui |-> [isConnected |-> TRUE, connectionStatus |-> "connected", error |-> "null"],
     out |-> Append(st.out, "request-initial-data")]

OnDisconnect(st) ==
    [st EXCEPT !.ui.isConnected = FALSE, !.ui.connectionStatus = "disconnected"]

OnConnectErrorKeepsStatus(st) ==
    [st EXCEPT !.ui.isConnected = FALSE, !.ui.error = "Error de conexion"]

\* error.message || 'Error de conexion': never empty.
OnConnectError(st) ==
    [st EXCEPT !.ui = [isConnected |-> FALSE, connectionStatus |-> "error",
                       error |-> "Error de conexion"]]

OnReconnect(st) ==
    [ui |-> [isConnected |-> TRUE, connectionStatus |-> "connected", error |-> "null"],
     out |-> Append(st.out, "request-initial-data")]

OnReconnectAttempt(st) == [st EXCEPT !.ui.connectionStatus = "connecting"]

OnReconnectError(st) ==
    [st EXCEPT !.ui.connectionStatus = "error", !.ui.error = "Error de reconexion"]

OnReconnectFailed(st) ==
    [st EXCEPT !.ui.connectionStatus = "disconnected",
               !.ui.error = "No se pudo reconectar al servidor"]

Handle(ev, st) ==
    CASE ev = "connect" -> OnConnect(st)
      [] ev = "disconnect" -> OnDisconnect(st)
      [] ev = "connect_error" -> OnConnectError(st)
      [] ev = "reconnect" -> OnReconnect(st)
      [] ev = "reconnect_attempt" -> OnReconnectAttempt(st)
      [] ev = "reconnect_error" -> OnReconnectError(st)
      [] ev = "reconnect_failed" -> OnReconnectFailed(st)

RECURSIVE Dispatch(_, _)
Dispatch(evs, st) ==
    IF evs = <<>> THEN st ELSE Dispatch(Tail(evs), Handle(Head(evs), st))

ManagerEvents == {"reconnect", "reconnect_attempt", "reconnect_error", "reconnect_failed"}

ForwardedAsInVersion2 == ManagerEvents

\* The events of the Manager that the Socket emits too.  The hook imports
\* { io }, which socket.io-client exports from version 3 on, and talks to a
\* socket.io Server of version 3 or 4: there the Manager's reconnection events
\* are emitted on the Manager (socket.io) alone, and a Socket emits connect,
\* connect_error and disconnect.
ForwardedToSocket == {}

SocketEvents(evs) ==
    SelectSeq(evs, LAMBDA ev : ev \notin ManagerEvents \/ ev \in ForwardedToSocket)

\* The socket's handlers run for the events `evs` of one step of the library.
Fire(evs) == Dispatch(SocketEvents(evs), [ui |-> Ui, out |-> <<>>])

\* ---- socket.io-client: the Manager and its one Socket
M == [readyState |-> readyState, reconnecting |-> reconnecting,
      reconnectTimer |-> reconnectTimer, attempts |-> attempts, active |-> active,
      connected |-> connected]

SetM(m) ==
    /\ readyState' = m.readyState
    /\ reconnecting' = m.reconnecting
    /\ reconnectTimer' = m.reconnectTimer
    /\ attempts' = m.attempts
    /\ active' = m.active
    /\ connected' = m.connected

\* io(url, options): a new Manager, opening (autoConnect), and its Socket.
NewSocket ==
    [readyState |-> "opening", reconnecting |-> FALSE, reconnectTimer |-> FALSE,
     attempts |-> 0, active |-> TRUE, connected |-> FALSE]

\* Manager.reconnect() while not reconnecting: gives up once backoff.attempts
\* has reached reconnectionAttempts, else sets the timer of the next attempt
\* (backoff.duration() counts it).
ManagerReconnect(m) ==
    IF m.attempts >= reconnectionAttempts
    THEN [m |-> [m EXCEPT !.attempts = 0, !.reconnecting = FALSE, !.reconnectTimer = FALSE],
          events |-> <<"reconnect_failed">>]
    ELSE [m |-> [m EXCEPT !.attempts = @ + 1, !.reconnecting = TRUE, !.reconnectTimer = TRUE],
          events |-> <<>>]

\* socket.connect(): nothing when connected; else subscribe to the Manager and
\* have it open unless it is open, opening or waiting for its timer.
SocketConnect(m) ==
    IF m.connected THEN m
    ELSE [m EXCEPT !.active = TRUE,
                   !.readyState = IF ~m.reconnecting /\ @ = "closed" THEN "opening" ELSE @]

\* socket.disconnect(): destroy() unsubscribes the Socket and, no Socket being
\* left, closes the Manager (no reconnection); 'disconnect' if it was connected.
SocketDisconnect(m) ==
    [m |-> [readyState |-> "closed", reconnecting |-> FALSE, reconnectTimer |-> FALSE,
            attempts |-> 0, active |-> FALSE, connected |-> FALSE],
     events |-> IF m.connected THEN <<"disconnect">> ELSE <<>>]

\* ---- the consumer's handlers on the socket (listenersRef)
RECURSIVE RemoveOne(_, _)
\* Emitter.off(event, fn): removes the first fn among the event's callbacks.
RemoveOne(seq, h) ==
    IF seq = <<>> THEN <<>>
    ELSE IF Head(seq) = h THEN Tail(seq)
    ELSE <<Head(seq)>> \o RemoveOne(Tail(seq), h)

NoListeners == [e \in EventNames |-> 0]

\* cleanupListeners(): off for every tracked handler, then the map is cleared.
cleanupListeners(ref, lis, att) ==
    IF ref = "socket"
    THEN [listeners |-> NoListeners,
          attached |-> [e \in EventNames |->
                          IF lis[e] # 0 THEN RemoveOne(att[e], lis[e]) ELSE att[e]]]
    ELSE [listeners |-> lis, attached |-> att]

\* ---- what the transport and the server do to the client
\* the engine opens: the Manager is open and its Socket sends CONNECT; if this
\* was a reconnection attempt the Manager emits reconnect and resets its backoff.
OpenOk ==
    LET f == Fire(IF reconnecting THEN <<"reconnect">> ELSE <<>>)
    IN  /\ readyState = "opening"
        /\ SetM([M EXCEPT !.readyState = "open", !.reconnecting = FALSE,
                          !.attempts = IF reconnecting THEN 0 ELSE @])
        /\ SetUi(f.ui)
        /\ emitted' = f.out
        /\ lastOp' = Op("open", 0)
        /\ UNCHANGED <<serverVars, mounted, socketRef, pingVars, historyVars, subscriptionVars>>

\* the server accepts the Socket's CONNECT: socket.connected, 'connect'.
ConnectAck ==
    LET f == Fire(<<"connect">>)
    IN  /\ readyState = "open"
        /\ active
        /\ ~connected
        /\ SetM([M EXCEPT !.connected = TRUE])
        /\ SetUi(f.ui)
        /\ emitted' = f.out
        /\ lastOp' = Op("connect", 0)
        /\ UNCHANGED <<serverVars, mounted, socketRef, pingVars, historyVars, subscriptionVars>>

\* the engine fails to open: the Manager emits error, which a Socket that is
\* not connected emits as connect_error; then a reconnection attempt goes on
\* to Manager.reconnect() and emits reconnect_error, and a first open goes on
\* to maybeReconnectOnOpen().
OpenError ==
    LET closed == [M EXCEPT !.readyState = "closed", !.reconnecting = FALSE]
        r == IF reconnecting \/ attempts = 0
             THEN ManagerReconnect(closed)
             ELSE [m |-> closed, events |-> <<>>]
        f == Fire((IF active /\ ~connected THEN <<"connect_error">> ELSE <<>>)
                  \o r.events
                  \o (IF reconnecting THEN <<"reconnect_error">> ELSE <<>>))
    IN  /\ readyState = "opening"
        /\ SetM(r.m)
        /\ SetUi(f.ui)
        /\ emitted' = f.out
        /\ exhausted' = (exhausted \/ r.events # <<>>)
        /\ failedSinceDrop' = IF failedSinceDrop >= 0 THEN failedSinceDrop + 1 ELSE -1
        /\ lastOp' = Op("openError", 0)
        /\ UNCHANGED <<serverVars, mounted, socketRef, pingVars, closedByConsumer,
                       subscriptionVars>>

\* the reconnection timer fires: reconnect_attempt, then the Manager opens.
ReconnectTimerFires ==
    LET f == Fire(<<"reconnect_attempt">>)
    IN  /\ reconnectTimer
        /\ SetM([M EXCEPT !.reconnectTimer = FALSE, !.readyState = "opening"])
        /\ SetUi(f.ui)
        /\ emitted' = f.out
        /\ lastOp' = Op("reconnectAttempt", attempts)
        /\ UNCHANGED <<serverVars, mounted, socketRef, pingVars, historyVars, subscriptionVars>>

\* the transport drops or times out, or the server closes the connection: the
\* Manager's onclose resets the backoff, its Socket emits 'disconnect' (the
\* reason is not 'io server disconnect'), and the Manager starts to reconnect.
TransportClose ==
    LET closed == [M EXCEPT !.readyState = "closed", !.connected = FALSE, !.attempts = 0]
        r == ManagerReconnect(closed)
        f == Fire((IF active THEN <<"disconnect">> ELSE <<>>) \o r.events)
    IN  /\ readyState = "open"
        /\ SetM(r.m)
        /\ SetUi(f.ui)
        /\ emitted' = f.out
        /\ failedSinceDrop' = IF connected THEN 0 ELSE -1
        /\ lastOp' = Op("transportClose", 0)
        /\ UNCHANGED <<serverVars, mounted, socketRef, pingVars, exhausted, closedByConsumer,
                       subscriptionVars>>

\* the server disconnects the Socket with a DISCONNECT packet: destroy(), then
\* 'disconnect' with 'io server disconnect', whose handler calls socket.connect().
ServerDisconnect ==
    LET d == SocketDisconnect(M)
        f == Fire(d.events)
    IN  /\ connected
        /\ SetM(SocketConnect(d.m))
        /\ SetUi(f.ui)
        /\ emitted' = f.out
        /\ failedSinceDrop' = -1
        /\ lastOp' = Op("serverDisconnect", 0)
        /\ UNCHANGED <<serverVars, mounted, socketRef, pingVars, exhausted, closedByConsumer,
                       subscriptionVars>>

\* ---- what the consumer calls
emitChecksRefOnly(ref, conn) ==
    [ret |-> ref = "socket", out |-> IF ref = "socket" THEN <<"consumer-event">> ELSE <<>>]

\* emit(eventName, data): what it returns and what it sends.
emit(ref, conn) ==
    IF ref = "socket" /\ conn
    THEN [ret |-> TRUE, out |-> <<"consumer-event">>]
    ELSE [ret |-> FALSE, out |-> <<>>]

EmitCall ==
    LET r == emit(socketRef, connected)
    IN  /\ emitted' = r.out
        /\ lastOp' = OpRet("emit", 0, r.ret)
        /\ UNCHANGED <<serverVars, mounted, socketRef, managerVars, uiVars, pingVars,
                       historyVars, subscriptionVars>>

\* reconnect(): with a socket, connecting and socket.connect(); without one
\* (the hook was unmounted), createSocket().
ReconnectCall ==
    /\ IF socketRef = "socket"
       THEN /\ SetM(SocketConnect(M))
            /\ SetUi([Ui EXCEPT !.connectionStatus = "connecting", !.error = "null"])
       ELSE /\ SetM(NewSocket)
            /\ UNCHANGED uiVars
    /\ socketRef' = "socket"
    /\ emitted' = <<>>
    /\ exhausted' = FALSE
    /\ closedByConsumer' = FALSE
    /\ failedSinceDrop' = -1
    /\ lastOp' = Op("reconnect", 0)
    /\ UNCHANGED <<serverVars, mounted, pingVars, subscriptionVars>>

\* disconnect(): cleanupListeners() and socket.disconnect().
DisconnectCall ==
    LET d == SocketDisconnect(M)
        f == Fire(d.events)
        c == cleanupListeners(socketRef, listenersRef, attached)
    IN  /\ IF socketRef = "socket"
           THEN /\ SetM(d.m)
                /\ SetUi(f.ui)
                /\ closedByConsumer' = TRUE
                /\ failedSinceDrop' = -1
           ELSE UNCHANGED <<managerVars, uiVars, closedByConsumer, failedSinceDrop>>
        /\ listenersRef' = c.listeners
        /\ attached' = c.attached
        /\ emitted' = <<>>
        /\ lastOp' = Op("disconnectCall", 0)
        /\ UNCHANGED <<serverVars, mounted, socketRef, pingVars, exhausted, unsubs>>

\* the component unmounts: the cleanups of the effects run, that of the
\* keepalive effect (clearInterval) and that of the socket effect.
Unmount ==
    LET d == SocketDisconnect(M)
        f == Fire(d.events)
        c == cleanupListeners(socketRef, listenersRef, attached)
    IN  /\ mounted
        /\ mounted' = FALSE
        /\ pingTimers' = <<>>
        /\ IF socketRef = "socket"
           THEN SetM(d.m) /\ SetUi(f.ui)
           ELSE UNCHANGED <<managerVars, uiVars>>
        /\ socketRef' = "null"
        /\ listenersRef' = c.listeners
        /\ attached' = c.attached
        /\ emitted' = <<>>
        /\ failedSinceDrop' = -1
        /\ lastOp' = Op("unmount", 0)
        /\ UNCHANGED <<serverVars, effectIsConnected, sincePing, exhausted, closedByConsumer,
                       unsubs>>

\* ---- the subscription API
\* on(eventName, handler), with a socket: the tracked handler of that name is
\* taken off the socket, the new one is attached and tracked.
on(lis, att, e, h) ==
    LET removed == IF lis[e] # 0 THEN RemoveOne(att[e], lis[e]) ELSE att[e]
    IN  [listeners |-> [lis EXCEPT ![e] = h],
         attached |-> [att EXCEPT ![e] = Append(removed, h)]]

\* the function on(eventName, handler) returned, with a socket:
\* socket.off(eventName, handler) and listenersRef.delete(eventName).
unsubscribe(lis, att, e, h) ==
    [listeners |-> [lis EXCEPT ![e] = 0],
     attached |-> [att EXCEPT ![e] = RemoveOne(@, h)]]

\* off(eventName, handler), with a socket: the entry of the map is deleted
\* only if it tracks this handler.
off(lis, att, e, h) ==
    [listeners |-> [lis EXCEPT ![e] = IF @ = h THEN 0 ELSE @],
     attached |-> [att EXCEPT ![e] = RemoveOne(@, h)]]

OnCall(e, h) ==
    LET r == on(listenersRef, attached, e, h)
    IN  /\ Len(attached[e]) < MaxAttached
        /\ IF socketRef = "socket"
           THEN /\ listenersRef' = r.listeners
                /\ attached' = r.attached
                /\ unsubs' = unsubs \cup {<<e, h>>}
           ELSE UNCHANGED subscriptionVars
        /\ emitted' = <<>>
        /\ lastOp' = Op("on", <<e, h>>)
        /\ UNCHANGED <<serverVars, mounted, socketRef, managerVars, uiVars, pingVars,
                       historyVars>>

UnsubscribeCall(e, h) ==
    LET r == unsubscribe(listenersRef, attached, e, h)
    IN  /\ <<e, h>> \in unsubs
        /\ IF socketRef = "socket"
           THEN listenersRef' = r.listeners /\ attached' = r.attached
           ELSE UNCHANGED <<listenersRef, attached>>
        /\ emitted' = <<>>
        /\ lastOp' = Op("unsubscribe", <<e, h>>)
        /\ UNCHANGED <<serverVars, mounted, socketRef, managerVars, uiVars, pingVars,
                       historyVars, unsubs>>

OffCall(e, h) ==
    LET r == off(listenersRef, attached, e, h)
    IN  /\ IF socketRef = "socket"
           THEN listenersRef' = r.listeners /\ attached' = r.attached
           ELSE UNCHANGED <<listenersRef, attached>>
        /\ emitted' = <<>>
        /\ lastOp' = Op("off", <<e, h>>)
        /\ UNCHANGED <<serverVars, mounted, socketRef, managerVars, uiVars, pingVars,
                       historyVars, unsubs>>

\* ---- the keepalive
PingEffectNoCleanup(timers, was) == timers

\* the cleanup the keepalive effect returned when it last ran: clearInterval
\* of the interval it had set, nothing if it had set none.
PingEffectCleanup(timers, was) ==
    IF was /\ timers # <<>> THEN SubSeq(timers, 1, Len(timers) - 1) ELSE timers

\* useEffect(..., [isConnected]): after a render with another isConnected, the
\* last cleanup runs and then the effect, which sets the interval if isConnected.
PingEffect ==
    LET cleared == PingEffectCleanup(pingTimers, effectIsConnected)
    IN  /\ mounted
        /\ isConnected # effectIsConnected
        /\ pingTimers' = IF isConnected THEN Append(cleared, 0) ELSE cleared
        /\ effectIsConnected' = isConnected
        /\ emitted' = <<>>
        /\ lastOp' = Op("pingEffect", 0)
        /\ UNCHANGED <<serverVars, mounted, socketRef, managerVars, uiVars, sincePing,
                       historyVars, subscriptionVars>>

PingCallbackAlways(ref, conn) == TRUE

\* the interval's callback: if (socketRef.current && socketRef.current.connected)
PingCallbackSends(ref, conn) == ref = "socket" /\ conn

\* an interval's period has passed: its callback runs.
PingTimerFires(i) ==
    LET send == PingCallbackSends(socketRef, connected)
    IN  /\ i \in DOMAIN pingTimers
        /\ pingTimers[i] >= PingIntervalSeconds
        /\ pingTimers' = [pingTimers EXCEPT ![i] = 0]
        /\ emitted' = IF send THEN <<"ping">> ELSE <<>>
        /\ sincePing' = IF send THEN 0 ELSE sincePing
        /\ lastOp' = Op("pingTimer", i)
        /\ UNCHANGED <<serverVars, mounted, socketRef, managerVars, uiVars, effectIsConnected,
                       historyVars, subscriptionVars>>

\* time passes on the client, no further than the next interval that is due.
ClientTick ==
    /\ \A i \in DOMAIN pingTimers : pingTimers[i] < PingIntervalSeconds
    /\ pingTimers' = [i \in DOMAIN pingTimers |-> pingTimers[i] + ClientTickSeconds]
    /\ sincePing' = IF sincePing + ClientTickSeconds >= PingIntervalSeconds
                    THEN PingIntervalSeconds ELSE sincePing + ClientTickSeconds
    /\ emitted' = <<>>
    /\ lastOp' = Op("clientTick", 0)
    /\ UNCHANGED <<serverVars, mounted, socketRef, managerVars, uiVars, effectIsConnected,
                   historyVars, subscriptionVars>>

\* ------------------------------------------------------------ specification
\* The whole server.  SpecIngest and SpecRegistry below are its two halves: the
\* datagram handlers read the registry's identities and the open sockets only,
\* which the clock, the pings and the reaper change as a disconnect does.
Next ==
    \/ TestConnectionOk
    \/ TestConnectionFail
    \/ BindOk
    \/ BindFail
    \/ UdpSocketError
    \/ \E msg \in Messages : Receive(msg)
    \/ \E d \in Datagrams : StoreResolved(d)
    \/ \E d \in Datagrams : StoreRejected(d)
    \/ Connect
    \/ \E id \in Ids : TransportDrop(id)
    \/ \E id \in Ids : Disconnect(id)
    \/ \E id \in Ids : SendToClient(id)
    \/ \E id \in Ids : Ping(id)
    \/ Tick
    \/ Reaper

Spec == Init /\ [][Next]_vars

\* The ingestion pipeline while sessions come and go; every session's
\* transport is up until the session disconnects (SpecDelivery has the others).
NextIngest ==
    \/ TestConnectionOk
    \/ TestConnectionFail
    \/ BindOk
    \/ BindFail
    \/ UdpSocketError
    \/ \E msg \in Messages : Receive(msg)
    \/ \E d \in Datagrams : StoreResolved(d)
    \/ \E d \in Datagrams : StoreRejected(d)
    \/ Connect
    \/ \E id \in Ids : Disconnect(id)

SpecIngest == Init /\ [][NextIngest]_vars

\* The same, with the steps of initializeServices taken when they can be:
\* testConnection settles and the bind succeeds or fails.
SpecIngestFair ==
    /\ SpecIngest
    /\ WF_vars(TestConnectionOk \/ TestConnectionFail)
    /\ WF_vars(BindOk \/ BindFail)

\* Delivery: the broadcasts of the stored reports and the targeted sends, to
\* sessions some of which have lost their transport.
NextDelivery ==
    \/ TestConnectionOk
    \/ BindOk
    \/ \E msg \in ValidMessages : Receive(msg)
    \/ \E d \in Datagrams : StoreResolved(d)
    \/ Connect
    \/ \E id \in Ids : TransportDrop(id)
    \/ \E id \in Ids : Disconnect(id)
    \/ \E id \in Ids : SendToClient(id)

SpecDelivery == Init /\ [][NextDelivery]_vars

\* The registry under connections, heartbeats, the clock and the reaper.  The
\* ping handler and the reaper treat a session whose transport is gone as any
\* other session of the namespace, so transports do not drop here.
NextRegistry ==
    \/ TestConnectionOk
    \/ TestConnectionFail
    \/ BindOk
    \/ BindFail
    \/ Connect
    \/ \E id \in Ids : Disconnect(id)
    \/ \E id \in Ids : Ping(id)
    \/ Tick
    \/ Reaper

SpecRegistry == Init /\ [][NextRegistry]_vars

\* Sessions whose peer vanishes: the registry under connections, lost
\* transports, the server's heartbeat, the clock and the reaper; the first
\* session pings, also with a ping still in flight when its transport is lost
\* (SpecRegistry has the pings of every session).
NextVanish ==
    \/ TestConnectionOk
    \/ BindOk
    \/ Connect
    \/ \E id \in Ids : TransportDrop(id)
    \/ \E id \in Ids : Disconnect(id)
    \/ Ping(1)
    \/ Tick
    \/ Reaper

SpecVanish == Init /\ [][NextVanish]_vars

\* The validator on its own, on every report.
NextValidate == \E data \in Reports : ValidateCall(data)

SpecValidate == Init /\ [][NextValidate]_vars

\* LocationModel.create on its own, on every valid report.
NextStore == \E data \in ValidReports : CreateCall(data)

SpecStore == Init /\ [][NextStore]_vars

\* The reaper and a session that keeps pinging, among sessions that do not.
NextKeepalive ==
    \/ TestConnectionOk
    \/ BindOk
    \/ Connect
    \/ \E id \in Ids \ {Keeper} : Disconnect(id)
    \/ \E id \in Ids \ {Keeper} : Ping(id)
    \/ KeepaliveTick
    \/ Reaper

SpecKeepalive == Init /\ [][NextKeepalive]_vars

\* The initial data sessions ask for, while reports are stored and sessions
\* come and go.
NextSession ==
    \/ TestConnectionOk
    \/ BindOk
    \/ \E data \in ValidMessages : CreateCall(data)
    \/ Connect
    \/ \E id \in Ids : Disconnect(id)
    \/ \E id \in Ids : RequestInitialData(id)
    \/ \E id \in Ids : InitialDataResolved(id)
    \/ \E id \in Ids : InitialDataRejected(id)

SpecSession == Init /\ [][NextSession]_vars

\* The operations that read the registry, with sessions connecting, the first
\* session pinging and the clock: broadcastNewLocation, broadcastMessage,
\* sendToClient, getConnectionStats, request-stats and request-initial-data.
NextFrame ==
    \/ TestConnectionOk
    \/ BindOk
    \/ Connect
    \/ Ping(1)
    \/ Tick
    \/ BroadcastNewLocation
    \/ BroadcastMessage
    \/ \E id \in Ids : SendToClient(id)
    \/ GetConnectionStats
    \/ \E id \in Ids : RequestStats(id)
    \/ \E id \in Ids : RequestInitialData(id)
    \/ \E id \in Ids : InitialDataResolved(id)
    \/ \E id \in Ids : InitialDataRejected(id)

SpecFrame == Init /\ [][NextFrame]_vars

\* The consumer's connection: the transport, the server, the consumer's calls,
\* the keepalive and the clock.
NextClient ==
    \/ OpenOk
    \/ ConnectAck
    \/ OpenError
    \/ ReconnectTimerFires
    \/ TransportClose
    \/ ServerDisconnect
    \/ EmitCall
    \/ ReconnectCall
    \/ DisconnectCall
    \/ Unmount
    \/ PingEffect
    \/ \E i \in DOMAIN pingTimers : PingTimerFires(i)
    \/ ClientTick

SpecClient == Init /\ [][NextClient]_vars

\* The consumer's subscriptions on the one socket of a mounted hook, with the
\* calls that clean them up.
NextSubscribe ==
    \/ \E e \in EventNames, h \in Handlers : OnCall(e, h)
    \/ \E e \in EventNames, h \in Handlers : UnsubscribeCall(e, h)
    \/ \E e \in EventNames, h \in Handlers : OffCall(e, h)
    \/ DisconnectCall
    \/ Unmount

SpecSubscribe == Init /\ [][NextSubscribe]_vars

\* ------------------------------------------------------------------ claims
LogCount(log, name, d) ==
    Cardinality({i \in DOMAIN log : log[i].ev = name /\ log[i].d = d})

\* How many location-update events carrying row r the events `out` hold for id.
UpdatesOf(out, id, r) ==
    Cardinality({i \in DOMAIN out[id] :
                    out[id][i].ev = "location-update" /\ out[id][i].data.id = r})

SendsLocationUpdate(out) ==
    \E id \in Ids : \E i \in DOMAIN out[id] : out[id][i].ev = "location-update"

\* The payloads C1 is about, said of the datagram's fields as they were sent.
MissingOrWrongType(m) ==
    \E f \in {"lat", "lon", "time"} : m[f].t \in {"absent", "null"} \/ m[f].t # "number"
OutOfRange(m) ==
    \/ m.lat.t = "number" /\ (m.lat.v < -90 \/ m.lat.v > 90)
    \/ m.lon.t = "number" /\ (m.lon.v < -180 \/ m.lon.v > 180)
RejectedPayloads ==
    {m \in Messages : m.kind = "object" /\ (MissingOrWrongType(m) \/ OutOfRange(m))}

\* C1: a datagram whose payload misses lat, lon or time, has one of them of the
\* wrong type, or has lat or lon out of range is handled with no store call
\* and no location-update, and none follows for it later.
C1_Step ==
    \A m \in RejectedPayloads :
        Receive(m) =>
            /\ LogCount(udpLog', "createLocation", NextDatagram) = 0
            /\ dg'[NextDatagram].phase = "discarded"
            /\ table' = table
            /\ ~SendsLocationUpdate(sent')
C1_Never ==
    \A d \in Datagrams :
        dg[d].phase = "discarded" =>
            LogCount(udpLog, "createLocation", d) = 0 /\ LogCount(udpLog, "broadcast", d) = 0
C1_InvalidNeverStored == [][C1_Step]_vars /\ []C1_Never

\* C1 witness: two datagrams were turned down by the validator, and sessions are connected.
C1_Witness ==
    /\ \A d \in Datagrams : LogCount(udpLog, "invalid", d) = 1
    /\ OpenSockets(sockets) # {}

\* C2: a valid datagram whose store succeeds has had one store call and gets one
\* location-update, sent once to each session that is registered when
\* broadcastNewLocation is called and to no other; no other step sends a
\* location-update, so a session that connects later never gets this one.
C2_Step ==
    /\ \A d \in Datagrams :
          StoreResolved(d) =>
              /\ LogCount(udpLog', "createLocation", d) = 1
              /\ LogCount(udpLog', "broadcast", d) = 1
              /\ Len(table') = Len(table) + 1
              /\ \A id \in Ids :
                    UpdatesOf(sent', id, Len(table')) =
                        IF MapHas(connectedClients, id) THEN 1 ELSE 0
              /\ \A id \in Ids : \A r \in 1..Len(table) : UpdatesOf(sent', id, r) = 0
    /\ SendsLocationUpdate(sent') => \E d \in Datagrams : StoreResolved(d)
C3_Step ==
    /\ \A d \in Datagrams :
          StoreRejected(d) =>
              /\ LogCount(udpLog', "createLocation", d) = 1
              /\ dg'[d].phase = "failed"
              /\ ~SendsLocationUpdate(sent')
              /\ table' = table
              /\ udpState' = udpState
              /\ pc' = "running"
    /\ \A m \in ValidMessages :
          Receive(m) =>
              /\ dg'[NextDatagram].phase = "storing"
              /\ LogCount(udpLog', "createLocation", NextDatagram) = 1
C3_Failed ==
    (\E d \in Datagrams : dg[d].phase = "failed") =>
        /\ \A d \in Datagrams :
              dg[d].phase = "failed" =>
                  /\ LogCount(udpLog, "createLocation", d) = 1
                  /\ LogCount(udpLog, "broadcast", d) = 0
        /\ (pc = "running" /\ udpState = "listening"
                /\ \E e \in Datagrams : dg[e].phase = "none")
              => \A m \in ValidMessages : ENABLED Receive(m)
        /\ pc = "running" => \A e \in Storing : ENABLED StoreResolved(e)
C3_StoreFailureIsolated == [][C3_Step]_vars /\ []C3_Failed

\* C3 witness: the first datagram's store failed, and the second datagram, which
\* arrived after that failure, has been stored and broadcast.
C3_Witness ==
    \E i, j, k \in DOMAIN udpLog :
        /\ i < j /\ j < k
        /\ udpLog[i].ev = "storeError" /\ udpLog[i].d = 1
        /\ udpLog[j].ev = "message" /\ udpLog[j].d = 2
        /\ udpLog[k].ev = "broadcast" /\ udpLog[k].d = 2
        /\ udpState = "listening"

\* C4: a datagram that is not JSON, or that decodes to null or to another value
\* that is no object, is discarded: no store call, no row, nothing sent, nothing
\* raised out of the handler, and the listener still listening.
C4_Step ==
    \A m \in {GarbageMsg, NullMsg, NumberMsg} :
        Receive(m) =>
            /\ dg'[NextDatagram].phase = "discarded"
            /\ LogCount(udpLog', "createLocation", NextDatagram) = 0
            /\ table' = table
            /\ sent' = NoSent
            /\ ~unhandled'
            /\ pc' = "running"
            /\ udpState' = "listening"
C4_MalformedDiscarded == [][C4_Step]_vars /\ [](~unhandled)

\* C4 witness: one datagram was not JSON, another decoded to null, both were
\* caught, and the listener still listens.
C4_Witness ==
    /\ \E d \in Datagrams : LogCount(udpLog, "SyntaxError", d) = 1
    /\ \E d \in Datagrams : LogCount(udpLog, "TypeError", d) = 1
    /\ udpState = "listening"
    /\ pc = "running"

\* C5: while the store call of a datagram is pending, the listener takes the
\* next datagram, whatever it carries, and the pending store of any other
\* datagram can complete and be broadcast: nothing waits for the earlier store.
C5_Independent ==
    \A d \in Storing :
        /\ (pc = "running" /\ udpState = "listening"
                /\ \E e \in Datagrams : dg[e].phase = "none")
              => \A m \in Messages : ENABLED Receive(m)
        /\ pc = "running" => \A e \in Storing \ {d} : ENABLED StoreResolved(e)

\* C5 witness: the second datagram has been stored and broadcast while the
\* store of the first is still pending.
C5_Witness ==
    /\ dg[1].phase = "storing"
    /\ dg[2].phase = "done"
    /\ LogCount(udpLog, "broadcast", 2) = 1

\* C6: a failed bind takes the listener from unbound to closed, and the server
\* does not go on without ingestion: server.listen and the reaper's setInterval
\* run only in the step in which the bind succeeds, never once the socket closed
\* at startup.
C6_Step ==
    /\ BindFail => udpState = "unbound" /\ udpState' = "closed"
    /\ (udpState = "unbound" /\ udpState' = "closed") =>
          ~httpListening' /\ ~reaperScheduled' /\ pc' = "udpStart"
    /\ (~httpListening /\ httpListening') => udpState' = "listening"
    /\ (~reaperScheduled /\ reaperScheduled') => udpState' = "listening"
    /\ (pc = "udpStart" /\ udpState = "closed") => UNCHANGED vars
C6_BindFailureStops == [][C6_Step]_vars

\* C6 witness: the bind has failed.
C6_Witness ==
    /\ lastOp.name = "bindError"
    /\ udpState = "closed"
    /\ ~httpListening
    /\ ~reaperScheduled

\* C11: when a location-update is broadcast while a registered session's
\* transport is already gone, every other registered session whose transport
\* is up is delivered the update, once; nothing is raised to the datagram
\* handler, which logs the broadcast and completes, and the server keeps running.
C11_Step ==
    \A d \in Datagrams :
        (StoreResolved(d) /\ \E t \in Ids : sockets[t] = "torn") =>
            /\ \A id \in MapIds(connectedClients) :
                  sockets[id] = "open" =>
                      UpdatesOf(Delivered(sent', sockets'), id, Len(table')) = 1
            /\ dg'[d].phase = "done"
            /\ LogCount(udpLog', "broadcast", d) = 1
            /\ LogCount(udpLog', "storeError", d) = 0
            /\ ~unhandled'
            /\ pc' = "running"
            /\ sockets' = sockets
            /\ connectedClients' = connectedClients
C11_DeliveryFailureIsolated == [][C11_Step]_vars

\* C11 witness: an update has just been broadcast while the first of three
\* registered sessions had lost its transport; the two others were delivered it.
C11_Witness ==
    /\ lastOp.name = "storeResolved"
    /\ sockets[1] = "torn"
    /\ MapSize(connectedClients) = 3
    /\ Cardinality({id \in Ids :
                       UpdatesOf(Delivered(sent, sockets), id, Len(table)) = 1}) = 2

\* C12: sendToClient returns true exactly when the identity is that of a
\* session the server holds as connected, and then the event is sent to that
\* session and to no other (and reaches it if its transport is up); otherwise
\* it returns false and nothing is sent to any session.  Either way nothing is
\* raised and the registry and the sessions are left as they were.
C12_Step ==
    \A id \in Ids :
        SendToClient(id) =>
            /\ lastOp'.ret = (id \in InNamespace(sockets))
            /\ \A j \in Ids :
                  Len(sent'[j]) = IF j = id /\ id \in InNamespace(sockets) THEN 1 ELSE 0
            /\ (sockets[id] = "open") =>
                  Delivered(sent', sockets')[id] = <<Event("message", id, NoRow, 0)>>
            /\ connectedClients' = connectedClients
            /\ sockets' = sockets
            /\ ~unhandled'
            /\ pc' = "running"
C12_SendToClient == [][C12_Step]_vars

\* C12 witness: with two other sessions connected, a send to an identity whose
\* session has gone has just returned false.
C12_Witness ==
    /\ lastOp.name = "sendToClient"
    /\ ~lastOp.ret
    /\ sockets[lastOp.arg] = "closed"
    /\ Cardinality(OpenSockets(sockets)) = 2

CountOf(seq, x) == Cardinality({i \in DOMAIN seq : seq[i] = x})

\* C13: after the transport drops while the client is connected,
\* connectionStatus goes from connected to connecting; no more than
\* reconnectionAttempts attempts are made; and an attempt that fails leaves
\* connectionStatus at error only if it was the last of them.
C13_Step ==
    /\ (TransportClose /\ connected) => connectionStatus' = "connecting"
    /\ failedSinceDrop' <= reconnectionAttempts
    /\ (OpenError /\ failedSinceDrop >= 0 /\ connectionStatus' = "error") =>
          failedSinceDrop' = reconnectionAttempts
C13_ReconnectionStatus == [][C13_Step]_vars

\* C14: every step in which the socket becomes connected, be it the first
\* connection or a reconnection after any number of failed attempts, leaves
\* connectionStatus at connected and sends request-initial-data once; no other
\* step sends it.
C14_Step ==
    /\ (connected' /\ ~connected) =>
          /\ CountOf(emitted', "request-initial-data") = 1
          /\ connectionStatus' = "connected"
          /\ isConnected'
    /\ CountOf(emitted', "request-initial-data") > 0 => (connected' /\ ~connected)
C14_OneInitialDataRequest == [][C14_Step]_vars

\* C14 witness: the client has just connected again after a drop and two
\* failed attempts, and sent one request.
C14_Witness ==
    /\ lastOp.name = "connect"
    /\ failedSinceDrop = 2
    /\ emitted = <<"request-initial-data">>
    /\ connectionStatus = "connected"

\* C15: once the reconnection attempts are exhausted, and until the consumer
\* calls reconnect(), connectionStatus is error, the error message is not empty,
\* and the client neither is connected nor has a connection attempt under way
\* or scheduled; only reconnect() ends this.
C15_Terminal ==
    exhausted =>
        /\ connectionStatus = "error"
        /\ error # "null"
        /\ ~connected
        /\ ~isConnected
        /\ readyState = "closed"
        /\ ~reconnecting
        /\ ~reconnectTimer
        /\ ~ENABLED ReconnectTimerFires
        /\ ~ENABLED OpenOk
        /\ ~ENABLED ConnectAck
C15_Step == (exhausted /\ ~exhausted') => lastOp'.name = "reconnect"
C15_ExhaustedIsTerminal == [][C15_Step]_vars /\ []C15_Terminal

\* C15 witness: the attempts after a drop were exhausted, and the consumer has
\* since called disconnect() and emit(), not reconnect().
C15_Witness ==
    /\ exhausted
    /\ closedByConsumer
    /\ lastOp.name = "emit"
    /\ connectionStatus = "error"

\* C16: whatever on() calls and calls of the functions they returned have
\* been made on the socket, at most one consumer handler is attached to it for
\* each event name, and the map tracks exactly the attached handler: none when
\* none is attached.
C16_OneTrackedHandler ==
    socketRef = "socket" =>
        \A e \in EventNames :
            /\ Len(attached[e]) <= 1
            /\ attached[e] = IF listenersRef[e] = 0 THEN <<>> ELSE <<listenersRef[e]>>

\* C17: a call of the unsubscribe function of a handler that a later on() for
\* the same event name has replaced changes neither the handlers attached to
\* the socket nor the map.
C17_Step ==
    \A e \in EventNames, h \in Handlers :
        (UnsubscribeCall(e, h) /\ listenersRef[e] # 0 /\ listenersRef[e] # h) =>
            UNCHANGED <<attached, listenersRef>>
C17_StaleUnsubscribeIsNoOp == [][C17_Step]_vars

\* C18: a call of an unsubscribe function that directly follows a call of the
\* same function changes neither the handlers attached to the socket nor the map.
C18_Step ==
    \A e \in EventNames, h \in Handlers :
        (UnsubscribeCall(e, h) /\ lastOp = Op("unsubscribe", <<e, h>>)) =>
            UNCHANGED <<attached, listenersRef>>
C18_UnsubscribeIdempotent == [][C18_Step]_vars

\* C19: emit returns true exactly when the socket exists and is connected, and
\* then it sends the event; otherwise it sends nothing.  It changes nothing else.
C19_Step ==
    EmitCall =>
        /\ lastOp'.ret = (socketRef = "socket" /\ connected)
        /\ emitted' = IF socketRef = "socket" /\ connected
                      THEN <<"consumer-event">> ELSE <<>>
        /\ UNCHANGED <<socketRef, managerVars, uiVars>>
C19_EmitOnlyWhenConnected == [][C19_Step]_vars

\* C19 witness: emit has just returned false on a socket that exists and whose
\* Manager is open, the server not having accepted the connection yet.
C19_Witness ==
    /\ lastOp.name = "emit"
    /\ ~lastOp.ret
    /\ emitted = <<>>
    /\ socketRef = "socket"
    /\ readyState = "open"
    /\ ~connected

\* C20: a ping is sent only by a mounted hook whose socket is connected, not
\* after disconnect() unless reconnect() was called since, and no sooner than
\* PingIntervalSeconds after the ping before it; at most one interval is set,
\* none once the hook is unmounted, and a client closed by disconnect() is not
\* connected.
C20_Step ==
    CountOf(emitted', "ping") > 0 =>
        /\ CountOf(emitted', "ping") = 1
        /\ mounted
        /\ socketRef = "socket"
        /\ connected
        /\ ~closedByConsumer
        /\ sincePing >= PingIntervalSeconds
C20_TornDown ==
    /\ Len(pingTimers) <= 1
    /\ ~mounted => pingTimers = <<>>
    /\ closedByConsumer => ~connected
C20_KeepaliveOnlyWhileConnected == [][C20_Step]_vars /\ []C20_TornDown

\* C20 witness: after a ping, disconnect() was called; the interval, not yet
\* cleared by the effect, has fired again, and nothing was sent.
C20_Witness ==
    /\ lastOp.name = "pingTimer"
    /\ emitted = <<>>
    /\ closedByConsumer
    /\ sincePing = PingIntervalSeconds
    /\ mounted

EntriesOf(m, k) == {i \in DOMAIN m : m[i].id = k}

\* The totalClients of the last count the latest step sent to id, -1 if none.
LastCount(out, id) ==
    IF out[id] # <<>> /\ out[id][Len(out[id])].ev = "client-count-update"
    THEN out[id][Len(out[id])].totalClients
    ELSE -1

\* C7: whatever connections, pings, disconnects and reaper runs have happened,
\* the registry holds at most one entry per session identity, every live
\* session has exactly one entry of its own, and the count the registry
\* reports (its size, and the count last sent to a session still connected) is
\* the number of identities registered.
C7_RegistryUnique ==
    /\ \A id \in Ids : Cardinality(EntriesOf(connectedClients, id)) <= 1
    /\ \A id \in InNamespace(sockets) : Cardinality(EntriesOf(connectedClients, id)) = 1
    /\ MapSize(connectedClients) = Cardinality(MapIds(connectedClients))
    /\ \A id \in OpenSockets(sockets) :
          LastCount(sent, id) # -1 =>
              LastCount(sent, id) = Cardinality(MapIds(connectedClients))

\* C7 witness: two sessions are registered, one of them pinged after it
\* connected, and a third has been removed by the reaper.
C7_Witness ==
    /\ Len(connectedClients) = 2
    /\ \E i \in DOMAIN connectedClients :
          connectedClients[i].lastActivity > connectedClients[i].connectedAt
    /\ lastOp.name = "cleanup"
    /\ lastReap.cleaned = 1

\* C8: a ping for a session that is not in the registry leaves the registry as
\* it is: no entry is created and nothing is raised.
C8_Step ==
    \A id \in Ids :
        (Ping(id) /\ ~MapHas(connectedClients, id)) =>
            /\ connectedClients' = connectedClients
            /\ sockets' = sockets
            /\ pc' = "running"
            /\ ~unhandled'
C8_PingUnknownIsNoOp == [][C8_Step]_vars

\* C8 witness: a ping has just been handled for a session the reaper had removed.
C8_Witness ==
    /\ lastOp.name = "ping"
    /\ sockets[lastOp.arg] = "closed"
    /\ ~MapHas(connectedClients, lastOp.arg)
    /\ connectedClients # <<>>

\* C9: a run of cleanupInactiveConnections(threshold) leaves in the registry
\* exactly the entries that were in it and whose last activity is at most
\* threshold minutes old, in their order; every session it removes is
\* disconnected, no kept session is, and it returns the number removed.
C9_Step ==
    Reaper =>
        LET kept == SelectSeq(connectedClients,
                              LAMBDA e : now - e.lastActivity <= DefaultMaxInactiveMinutes)
        IN  /\ connectedClients' = kept
            /\ \A id \in MapIds(connectedClients) \ MapIds(kept) : sockets'[id] = "closed"
            /\ \A id \in Ids \ (MapIds(connectedClients) \ MapIds(kept)) :
                  sockets'[id] = sockets[id]
            /\ lastReap'.cleaned = Len(connectedClients) - Len(kept)
C9_ReaperRemovesExactlyInactive == [][C9_Step]_vars

\* C9 witness: a run has removed a session idle for more than the threshold and
\* kept one idle for exactly the threshold.
C9_Witness ==
    /\ lastOp.name = "cleanup"
    /\ lastReap.cleaned >= 1
    /\ \E i \in DOMAIN connectedClients :
          now - connectedClients[i].lastActivity = DefaultMaxInactiveMinutes

\* C10: a run of cleanupInactiveConnections that follows another run at the same
\* instant and with the same threshold, with no connect, ping or disconnect in
\* between, changes neither the registry nor any session and returns 0.
C10_Step ==
    (Reaper /\ lastReap.ran /\ lastReap.at = now
            /\ lastReap.max = DefaultMaxInactiveMinutes) =>
        /\ connectedClients' = connectedClients
        /\ sockets' = sockets
        /\ lastReap'.cleaned = 0
C10_ReaperIdempotent == [][C10_Step]_vars

\* C10 witness: a second run has followed, at the same instant, a run that
\* removed two sessions.
C10_Witness ==
    /\ lastOp.name = "cleanup"
    /\ lastReap.second
    /\ lastReap.first = 2
    /\ lastReap.cleaned = 0

\* C21: a ping from a session is answered with one pong, sent to that session
\* and to no other (a session that has gone by the time its ping is handled
\* has no one to answer); if the session is in the registry, the last activity
\* of its entry becomes the time of receipt and its connect time stays; every
\* other entry, and the order of the entries, stay as they were.
C21_Step ==
    \A id \in Ids :
        Ping(id) =>
            /\ \A j \in Ids :
                  sent'[j] = IF j = id /\ id \in InNamespace(sockets)
                             THEN <<Event("pong", 0, NoRow, 0)>> ELSE <<>>
            /\ DOMAIN connectedClients' = DOMAIN connectedClients
            /\ \A i \in DOMAIN connectedClients :
                  connectedClients'[i] =
                      IF connectedClients[i].id = id
                      THEN [id |-> id, connectedAt |-> connectedClients[i].connectedAt,
                            lastActivity |-> now]
                      ELSE connectedClients[i]
            /\ sockets' = sockets
C21_PingAnswered == [][C21_Step]_vars

\* C21 witness: a ping of one of three registered sessions has just been
\* answered, some time after they connected: its entry alone is touched.
C21_Witness ==
    /\ lastOp.name = "ping"
    /\ Len(connectedClients) = 3
    /\ sent[lastOp.arg] = <<Event("pong", 0, NoRow, 0)>>
    /\ \A i \in DOMAIN connectedClients :
          /\ connectedClients[i].connectedAt < now
          /\ connectedClients[i].lastActivity =
                IF connectedClients[i].id = lastOp.arg THEN now
                ELSE connectedClients[i].connectedAt

\* The totalClients of the client-count-update events the latest step sent to id, in order.
CountUpdates(out, id) ==
    LET counts == SelectSeq(out[id], LAMBDA e : e.ev = "client-count-update")
    IN  [i \in DOMAIN counts |-> counts[i].totalClients]

\* C22: a connection sends one client-count-update to every session, the new
\* one included, and a disconnect sends one to every session that is left,
\* each carrying the size of the registry after the entry was added or
\* removed; a reaper run sends one for each session it removes, carrying the
\* size after that removal; no other step sends a client-count-update.
C22_Step ==
    /\ Connect =>
          /\ MapSize(connectedClients') = MapSize(connectedClients) + 1
          /\ \A j \in InNamespace(sockets') :
                CountUpdates(sent', j) = <<MapSize(connectedClients')>>
    /\ \A id \in Ids :
          Disconnect(id) =>
              /\ MapSize(connectedClients') = MapSize(connectedClients) - 1
              /\ \A j \in InNamespace(sockets') :
                    CountUpdates(sent', j) = <<MapSize(connectedClients')>>
              /\ sent'[id] = <<>>
    /\ Reaper =>
          LET removed == MapSize(connectedClients) - MapSize(connectedClients')
          IN  \A j \in InNamespace(sockets') :
                  CountUpdates(sent', j) =
                      [i \in 1..removed |-> MapSize(connectedClients) - i]
    /\ (\E j \in Ids : CountUpdates(sent', j) # <<>>) =>
          \/ Connect
          \/ \E id \in Ids : Disconnect(id)
          \/ Reaper
C22_OneCountPerChange == [][C22_Step]_vars

\* C22 witness: the reaper has just removed two of three sessions, and the one
\* that is left was sent the counts 2 and 1.
C22_Witness ==
    /\ lastOp.name = "cleanup"
    /\ lastReap.cleaned = 2
    /\ \E j \in InNamespace(sockets) : CountUpdates(sent, j) = <<2, 1>>

\* C23: connectionStatus becomes connected only from connecting, on the first
\* connection of a new socket as on every later one.
C23_Step ==
    (connectionStatus' = "connected" /\ connectionStatus # "connected") =>
        connectionStatus = "connecting"
C23_ConnectedOnlyFromConnecting == [][C23_Step]_vars

\* C24 as stated: the entry of a session whose peer vanished without a clean
\* disconnect leaves the registry only in a run of the reaper.
C24_OnlyReaperStep ==
    \A id \in Ids :
        (sockets[id] = "torn" /\ MapHas(connectedClients, id)
                /\ ~MapHas(connectedClients', id)) => Reaper
C24_OnlyReaperReclaims == [][C24_OnlyReaperStep]_vars

\* C24: a session whose peer vanished without a clean disconnect stays in the
\* registry until the reaper removes it or the server's heartbeat times out and
\* the session's own disconnect handler removes it; no other action, and no
\* other session's disconnect, removes its entry.
C24_Step ==
    \A id \in Ids :
        (sockets[id] = "torn" /\ ~MapHas(connectedClients', id)) =>
            \/ Reaper
            \/ Disconnect(id)
C24_Registered == \A id \in Ids : sockets[id] = "torn" => MapHas(connectedClients, id)
C24_ReaperOrHeartbeatReclaims == [][C24_Step]_vars /\ []C24_Registered

\* C24 witness: the heartbeat of a vanished session has timed out and its
\* disconnect handler has removed its entry, before any run of the reaper and
\* while another vanished session is still registered.
C24_Witness ==
    /\ lastOp.name = "pingTimeout"
    /\ ~MapHas(connectedClients, lastOp.arg)
    /\ \E id \in Ids : sockets[id] = "torn" /\ MapHas(connectedClients, id)
    /\ now < DefaultMaxInactiveMinutes

\* The check a warning of validateLocationData belongs to.
Stage(warn) ==
    CASE warn \in {"missing lat", "missing lon", "missing time"} -> "presence"
      [] warn \in {"lat/lon type", "time type"} -> "type"
      [] warn = "range" -> "range"
      [] warn = "none" -> "none"

Required == {"lat", "lon", "time"}

\* C25: validateLocationData returns true exactly when lat, lon and time are
\* all there and not null, all three are numbers, lat is in [-90, 90] and lon
\* in [-180, 180], whatever the optional fields are; it fails at the first of
\* presence of the three, type of the three, range; the verdict is that of the
\* same report without its optional fields, so it depends on nothing but the
\* three fields of the report, whatever was called before; and the call changes
\* no state of the services.
C25_Step ==
    lastOp'.name = "validateLocationData" =>
            LET r == lastOp'.ret
                data == lastOp'.arg
                present == data.kind = "object"
                           /\ \A f \in Required : data[f].t \notin {"absent", "null"}
                numbers == \A f \in Required : data[f].t = "number"
                inRange == /\ -90 <= data.lat.v /\ data.lat.v <= 90
                           /\ -180 <= data.lon.v /\ data.lon.v <= 180
            IN  /\ r.ret = (present /\ numbers /\ inRange)
                /\ r.threw = "none" =>
                      Stage(r.warn) = IF ~present THEN "presence"
                                      ELSE IF ~numbers THEN "type"
                                      ELSE IF ~inRange THEN "range"
                                      ELSE "none"
                /\ r.ret = validateLocationData(
                               Msg(data.kind, data.lat, data.lon, data.time, NoOptionals)).ret
                /\ UNCHANGED <<serverVars, clientVars>>
C25_ValidatorVerdict == [][C25_Step]_vars

\* C25 witness: a report whose latitude is out of range and whose time is null,
\* with its optional fields set, has just been turned down for the missing time.
C25_Witness ==
    /\ lastOp.name = "validateLocationData"
    /\ lastOp.arg.lat = Num(91)
    /\ lastOp.arg.time = Null
    /\ lastOp.arg.spd = Num(0)
    /\ ~lastOp.ret.ret
    /\ lastOp.ret.warn = "missing time"

OptionalColumns ==
    {<<"acc", "accuracy">>, <<"alt", "altitude">>, <<"spd", "speed">>, <<"prov", "provider">>}

\* C26: the row LocationModel.create writes for a valid report has the
\* report's lat, lon and time as latitude, longitude and timestamp, and every
\* optional field the report carries with the value given, 0 included; a
\* column is null only when the report omits the field.
C26_Step ==
    lastOp'.name = "create" =>
        LET data == lastOp'.arg
            row == table'[Len(table')]
        IN  /\ row.latitude = data.lat.v
            /\ row.longitude = data.lon.v
            /\ row.timestamp_value = data.time.v
            /\ \A c \in OptionalColumns :
                  row[c[2]] = IF data[c[1]].t = "absent" THEN Null ELSE data[c[1]]
C26_RowCarriesReport == [][C26_Step]_vars

\* The steps of the operations C27 lists, by the name lastOp gives them.
ReadOnlyOps ==
    {"broadcastNewLocation", "storeResolved", "broadcastMessage", "sendToClient",
     "getConnectionStats", "request-stats", "request-initial-data",
     "initialDataResolved", "initialDataRejected"}

\* C27: broadcastNewLocation, broadcastMessage, sendToClient,
\* getConnectionStats, request-stats and request-initial-data (with the answer
\* it sends later) leave the registry as it is: the same sessions, in the same
\* order, with the same connect and last-activity times.  An entry that stays
\* in the registry changes only in a step of the ping handler, and its connect
\* time never changes.
C27_Step ==
    /\ lastOp'.name \in ReadOnlyOps => connectedClients' = connectedClients
    /\ \A id \in MapIds(connectedClients) \cap MapIds(connectedClients') :
          /\ MapGet(connectedClients', id).connectedAt = MapGet(connectedClients, id).connectedAt
          /\ MapGet(connectedClients', id) # MapGet(connectedClients, id) => Ping(id)
C27_RegistryFrame == [][C27_Step]_vars

\* C27 witness: request-stats has just been answered for a session that pinged
\* after it connected, some time after that ping; three sessions are registered.
C27_Witness ==
    /\ lastOp.name = "request-stats"
    /\ Len(connectedClients) = 3
    /\ MapHas(connectedClients, lastOp.arg)
    /\ MapGet(connectedClients, lastOp.arg).connectedAt
          < MapGet(connectedClients, lastOp.arg).lastActivity
    /\ MapGet(connectedClients, lastOp.arg).lastActivity < now
    /\ sent[lastOp.arg] = <<Event("stats-update", lastOp.arg,
                                 MapGet(connectedClients, lastOp.arg), 3)>>

HasEvent(out, id, name) == \E i \in DOMAIN out[id] : out[id][i].ev = name

\* C28: a connection registers the new session with connect time and last
\* activity at the current time, leaving the other entries as they were; the
\* new session is sent one connection-info with its own identity and a count
\* that includes it, and after it the client-count-update of this connection;
\* no other session and no other step gets a connection-info.
C28_Step ==
    /\ Connect =>
          LET id == NextId
          IN  /\ ~MapHas(connectedClients, id)
              /\ connectedClients' =
                    Append(connectedClients,
                           [id |-> id, connectedAt |-> now, lastActivity |-> now])
              /\ sent'[id] =
                    <<Event("connection-info", id, NoRow, MapSize(connectedClients) + 1),
                      Event("client-count-update", 0, NoRow, MapSize(connectedClients) + 1)>>
              /\ \A j \in Ids \ {id} : ~HasEvent(sent', j, "connection-info")
    /\ (\E j \in Ids : HasEvent(sent', j, "connection-info")) => Connect
C28_ConnectionInfo == [][C28_Step]_vars

\* C28 witness: the third session has just connected, some time after the
\* start and after an earlier session left: it was told its identity, 3, and
\* the count, 2.
C28_Witness ==
    /\ lastOp = Op("connection", 3)
    /\ now > 0
    /\ MapSize(connectedClients) = 2
    /\ sent[3][1] = Event("connection-info", 3, NoRow, 2)
    /\ MapGet(connectedClients, 3).connectedAt = now

InitialDataOps == {"initialDataResolved", "initialDataRejected"}

\* C29: a request-initial-data event opens exactly one query for its session,
\* and each query that settles closes one and sends one initial-data event to
\* that session alone while it is connected: with success true and the ten
\* newest rows when the query resolved, with success false and an error text
\* when it rejected. Neither outcome touches the registry or the sessions, and
\* no other step sends an initial-data event.
C29_Step ==
    /\ \A id \in Ids :
          /\ RequestInitialData(id) =>
                /\ queries' = [queries EXCEPT ![id] = queries[id] + 1]
                /\ sent' = NoSent
          /\ (lastOp'.name = "initialDataResolved" /\ lastOp'.arg = id) =>
                /\ queries[id] > 0
                /\ queries' = [queries EXCEPT ![id] = queries[id] - 1]
                /\ sent'[id] = IF sockets[id] = "open"
                               THEN <<Event("initial-data", id,
                                            [success |-> TRUE,
                                             data |-> getAll(table, RecentLimit, 0)], 0)>>
                               ELSE <<>>
                /\ \A j \in Ids \ {id} : sent'[j] = <<>>
          /\ (lastOp'.name = "initialDataRejected" /\ lastOp'.arg = id) =>
                /\ queries[id] > 0
                /\ queries' = [queries EXCEPT ![id] = queries[id] - 1]
                /\ sent'[id] = IF sockets[id] = "open"
                               THEN <<Event("initial-data", id,
                                            [success |-> FALSE,
                                             error |-> "Error al obtener datos iniciales"], 0)>>
                               ELSE <<>>
                /\ \A j \in Ids \ {id} : sent'[j] = <<>>
                /\ UNCHANGED <<connectedClients, sockets>>
    /\ (\E j \in Ids : HasEvent(sent', j, "initial-data")) => lastOp'.name \in InitialDataOps
    /\ queries' # queries =>
          lastOp'.name \in InitialDataOps \cup {"request-initial-data"}
C29_InitialDataAnswered == [][C29_Step]_vars

\* C29 witness: with two sessions connected and a row stored, the query of
\* session 2 has just failed: session 2 was sent the failure, session 1
\* nothing, and both are still registered.
C29_Witness ==
    /\ lastOp.name = "initialDataRejected"
    /\ lastOp.arg = 2
    /\ Len(sent[2]) = 1
    /\ sent[2][1].ev = "initial-data"
    /\ sent[2][1].data.success = FALSE
    /\ sent[1] = <<>>
    /\ sockets[1] = "open" /\ sockets[2] = "open"
    /\ MapHas(connectedClients, 1) /\ MapHas(connectedClients, 2)
    /\ Len(table) > 0
    /\ queries[2] = 0

\* The sessions with a location-update among the packets `out`.
Recipients(out) == {id \in Ids : HasEvent(out, id, "location-update")}

\* The positions, session and index, of the location-updates in `out`.
LocationUpdates(out) ==
    {p \in Ids \X (1..MaxSessions + 1) :
        p[2] <= Len(out[p[1]]) /\ out[p[1]][p[2]].ev = "location-update"}

\* C30 as stated: the totalClients of a location-update is the number of
\* sessions whose peers get that update.
C30_CountIsSessionsReached ==
    \A p \in LocationUpdates(sent) :
        sent[p[1]][p[2]].totalClients = Cardinality(Recipients(Delivered(sent, sockets)))

\* C30: the totalClients of a location-update is the number of registered
\* sessions, which are the sessions the update is written to; a session whose
\* transport is already gone is among them although the update is lost there.
C30_CountIsSessionsSentTo ==
    \A p \in LocationUpdates(sent) :
        LET totalClients == sent[p[1]][p[2]].totalClients
        IN  /\ totalClients = Cardinality(Recipients(sent))
            /\ totalClients = MapSize(connectedClients)
            /\ Recipients(sent) = InNamespace(sockets)
            /\ Cardinality(Recipients(Delivered(sent, sockets))) <= totalClients

\* C30 witness: a stored report has just been broadcast to two registered
\* sessions, one of them with its transport gone: the update says 2.
C30_Witness ==
    /\ lastOp.name = "storeResolved"
    /\ Recipients(sent) = {1, 2}
    /\ sockets[1] = "torn"
    /\ sockets[2] = "open"
    /\ sent[2][1].ev = "location-update"
    /\ sent[2][1].totalClients = 2

\* C31: once start() was called its promise settles, resolved when the socket
\* is listening or rejected when the bind failed.
C31_StartSettles ==
    (startPromise = "pending") ~> (startPromise \in {"resolved", "rejected"})

\* C32: between handlers the registry holds exactly the identities of the
\* sessions the server holds as connected, one entry each; an identity enters
\* the registry in the connection step of its session and leaves it in the
\* step that runs its disconnect handler, the reaper's forced disconnect
\* included, and in no other step.
C32_Step ==
    \A id \in Ids :
        /\ (~MapHas(connectedClients, id) /\ MapHas(connectedClients', id)) =>
              /\ lastOp'.name = "connection" /\ lastOp'.arg = id
              /\ sockets[id] = "new" /\ sockets'[id] = "open"
        /\ (MapHas(connectedClients, id) /\ ~MapHas(connectedClients', id)) =>
              /\ lastOp'.name \in {"disconnect", "pingTimeout", "cleanup"}
              /\ sockets[id] \in {"open", "torn"} /\ sockets'[id] = "closed"
C32_RegistryIsOpenSessions ==
    /\ [][C32_Step]_vars
    /\ [](/\ MapIds(connectedClients) = InNamespace(sockets)
          /\ MapSize(connectedClients) = Cardinality(InNamespace(sockets)))

\* C32 witness: three sessions have connected; the first left by its own
\* disconnect, the second was removed by the reaper just now, and the third,
\* which connected later, is the one session registered and connected.
C32_Witness ==
    /\ lastOp.name = "cleanup"
    /\ sockets = <<"closed", "closed", "open">>
    /\ MapIds(connectedClients) = {3}
    /\ lastReap.cleaned = 1

\* C33: in every state of the client, isConnected is true exactly when
\* connectionStatus is "connected".
C33_IsConnectedIffStatusConnected ==
    isConnected <=> (connectionStatus = "connected")

\* C34: the session whose peer stays connected and pings on its period is in
\* the registry and connected from its connection on, whatever the reaper
\* does: a run of the reaper leaves its entry and its connection as they were.
C34_Step ==
    (lastOp'.name = "cleanup" /\ sockets[Keeper] = "open") =>
        /\ sockets'[Keeper] = "open"
        /\ MapHas(connectedClients', Keeper)
        /\ MapGet(connectedClients', Keeper) = MapGet(connectedClients, Keeper)
        /\ now - MapGet(connectedClients, Keeper).lastActivity <= DefaultMaxInactiveMinutes
C34_KeeperNeverReaped ==
    /\ [][C34_Step]_vars
    /\ [](sockets[Keeper] # "new" =>
             sockets[Keeper] = "open" /\ MapHas(connectedClients, Keeper))

\* C34 witness: the reaper has just removed a session that was idle for more
\* than 30 minutes, and the pinging session, connected since the start, is
\* still registered.
C34_Witness ==
    /\ lastOp.name = "cleanup"
    /\ lastReap.cleaned >= 1
    /\ now > DefaultMaxInactiveMinutes
    /\ MapHas(connectedClients, Keeper)
    /\ MapGet(connectedClients, Keeper).connectedAt = 0
    /\ sockets[Keeper] = "open"

\* The listener was closed by an error it reported while listening.
ClosedByError == udpState = "closed" /\ pc = "running"

C35_ErrorCloses ==
    lastOp'.name = "udpError" =>
        /\ udpState = "listening"
        /\ udpState' = "closed"
        /\ UNCHANGED <<connectedClients, sockets, httpListening, reaperScheduled, table>>

\* C35 as stated: an error reported while listening closes the listener and
\* leaves the registry and the sessions alone, and once it is closed no row
\* is stored and no location-update is broadcast.
C35_NothingStoredAfterError ==
    [][/\ C35_ErrorCloses
       /\ ClosedByError => (table' = table /\ Recipients(sent') = {})]_vars

\* C35: an error reported while listening closes the listener for good and
\* leaves the registry and the sessions alone; once it is closed no datagram
\* is received, and a row is stored or a location-update broadcast only for a
\* datagram whose store was pending when the error came.
C35_Step ==
    /\ C35_ErrorCloses
    /\ ClosedByError =>
          /\ udpState' = "closed"
          /\ lastOp'.name # "message"
          /\ \A d \in Datagrams : dg[d].phase = "none" => dg'[d].phase = "none"
          /\ Storing' \subseteq Storing
          /\ (table' # table \/ Recipients(sent') # {}) =>
                /\ lastOp'.name = "storeResolved"
                /\ dg[lastOp'.arg].phase = "storing"
                /\ Len(table') = Len(table) + 1
          /\ httpListening' /\ reaperScheduled'
C35_OnlyPendingStoresAfterError == [][C35_Step]_vars

\* C35 witness: after the error closed the listener a pending store resolved
\* and its row was broadcast to the two sessions, one of which connected after
\* the error.
C35_Witness ==
    /\ ClosedByError
    /\ lastOp.name = "storeResolved"
    /\ Len(table) = 1
    /\ MapIds(connectedClients) = {1, 2}
    /\ Recipients(sent) = {1, 2}
    /\ \E i \in DOMAIN udpLog : udpLog[i].ev = "broadcast"

====
